---- MODULE Spec2Model ----
(***************************************************************************)
(* Router-interface / VRF / address synchronisation engine of              *)
(* platform/saivpp/vpplib/SwitchStateBaseRif.cpp, as a state machine.      *)
(*                                                                         *)
(* The state is the engine's in-memory maps (vrf_objMap, lpbInstMap,       *)
(* lpbIpToIfMap, lpbIpToHostIfMap, availableInstances, currentMaxInstance, *)
(* m_intf_prefix_map).  The dataplane, the OS command runner and the       *)
(* attribute store are external: what they return is an input of each      *)
(* action, and the calls an operation issues are recorded, in order, in    *)
(* lastOp.calls.                                                           *)
(***************************************************************************)
EXTENDS Integers, Sequences, FiniteSets, TLC

VARIABLES
    vrf_objMap,             \* sai object id -> IpVrfInfo
    lpbInstMap,             \* dataplane loopback name -> instance
    lpbIpToIfMap,           \* destination IP -> dataplane loopback name
    lpbIpToHostIfMap,       \* destination IP -> host interface name
    availableInstances,     \* released instance numbers (ordered set)
    currentMaxInstance,     \* running instance counter
    m_intf_prefix_map,      \* composite key -> serialized record
    m_useTapDevice,         \* switch configuration: tap devices in use
    lastOp,                 \* the last operation: inputs, calls issued, result
    lpbAdded,               \* history: <<destination IP, host>> of the routes added
    lpbCreated,             \* history: loopback name -> host, instance, live
    allocTrace,             \* history of direct allocator calls
    m_run_vpp_events_thread,\* run flag of the event thread
    evPc,                   \* position of the event thread in vppProcessEvents
    evQueue,                \* the dataplane event queue, oldest first
    evp,                    \* the event the thread has dequeued
    notifications,          \* port operational-status notifications sent
    evPosted                \* history: number of events the dataplane posted

vars == <<vrf_objMap, lpbInstMap, lpbIpToIfMap, lpbIpToHostIfMap,
          availableInstances, currentMaxInstance, m_intf_prefix_map,
          m_useTapDevice, lastOp, lpbAdded, lpbCreated, allocTrace,
          m_run_vpp_events_thread, evPc, evQueue, evp, notifications,
          evPosted>>

vrfVars == <<vrf_objMap>>
lpbVars == <<lpbInstMap, lpbIpToIfMap, lpbIpToHostIfMap,
             availableInstances, currentMaxInstance>>
lpbHist == <<lpbAdded, lpbCreated>>
addrVars == <<m_intf_prefix_map>>
cfgVars == <<m_useTapDevice>>
evVars == <<m_run_vpp_events_thread, evPc, evQueue, evp, notifications,
            evPosted>>

(***************************************************************************)
(* Bounds of the model.                                                    *)
(***************************************************************************)
\* the instance counter is not advanced past this value
MaxInstance == 4
\* length of the recorded history of direct allocator calls
MaxAllocTrace == 6
\* entries the Prefix State Store holds at a time
MaxStoreEntries == 1
\* events the dataplane posts in a run
MaxEvents == 2

(***************************************************************************)
(* std::string and std::map as the code uses them.                         *)
(***************************************************************************)
npos == -1

\* the null shared_ptr, distinct from every descriptor
nullptr == [null |-> TRUE]

\* std::string::find: 0-based position of the first occurrence, or npos
StrFind(s, pat) ==
    LET hits == {i \in 1..(Len(s) - Len(pat) + 1) :
                    SubSeq(s, i, i + Len(pat) - 1) = pat}
    IN  IF hits = {} THEN npos
        ELSE (CHOOSE i \in hits : \A j \in hits : i <= j) - 1

\* std::string::substr(pos)
Substr(s, pos) == SubSeq(s, pos + 1, Len(s))

\* std::string::substr(pos, n)
SubstrN(s, pos, n) == SubSeq(s, pos + 1, pos + n)

DigitVal(c) ==
    CASE c = "0" -> 0 [] c = "1" -> 1 [] c = "2" -> 2 [] c = "3" -> 3
      [] c = "4" -> 4 [] c = "5" -> 5 [] c = "6" -> 6 [] c = "7" -> 7
      [] c = "8" -> 8 [] c = "9" -> 9

IsDigit(c) == c \in {"0", "1", "2", "3", "4", "5", "6", "7", "8", "9"}

RECURSIVE StoiAcc(_, _)
StoiAcc(s, acc) ==
    IF Len(s) = 0 \/ ~IsDigit(SubSeq(s, 1, 1)) THEN acc
    ELSE StoiAcc(Substr(s, 1), acc * 10 + DigitVal(SubSeq(s, 1, 1)))

\* std::stoi on a string that starts with a digit
Stoi(s) == StoiAcc(s, 0)

EmptyMap == [k \in {} |-> 0]

\* m[k] = v
MapSet(m, k, v) == [x \in DOMAIN m \cup {k} |-> IF x = k THEN v ELSE m[x]]

\* m.erase(k)
MapErase(m, k) == [x \in DOMAIN m \ {k} |-> m[x]]

\* the map after std::map::operator[] (k), which inserts a value-initialised
\* entry when k is absent
MapTouch(m, k, dflt) == IF k \in DOMAIN m THEN m ELSE MapSet(m, k, dflt)

SetMin(S) == CHOOSE i \in S : \A j \in S : i <= j

(***************************************************************************)
(* Inputs.                                                                 *)
(***************************************************************************)
AF_INET == "AF_INET"
AF_INET6 == "AF_INET6"
SAI_IP_ADDR_FAMILY_IPV4 == "SAI_IP_ADDR_FAMILY_IPV4"
SAI_IP_ADDR_FAMILY_IPV6 == "SAI_IP_ADDR_FAMILY_IPV6"

\* route entries (destination prefixes) the control plane sends
Routes ==
    { [addr_family |-> SAI_IP_ADDR_FAMILY_IPV4, addr |-> "10.0.0.1", len |-> 32],
      [addr_family |-> SAI_IP_ADDR_FAMILY_IPV6, addr |-> "fc00::1", len |-> 128] }

\* host loopback devices
LoopbackHosts == {"Loopback0", "Loopback1"}

\* what the reverse lookup of a prefix can print: a loopback device, another
\* device, or nothing
HostIfNames == LoopbackHosts \cup {"Ethernet0", ""}

\* integer status of a dataplane call or an OS command
RetCodes == {0, -1}

(***************************************************************************)
(* Loopback instance allocator.                                            *)
(***************************************************************************)
\* a variant that pops the largest released number
getNextLoopbackInstance_PopsLargest(avail, max) ==
    IF avail # {}
    THEN LET top == CHOOSE i \in avail : \A j \in avail : j <= i
         IN  [ret |-> top, avail |-> avail \ {top}, max |-> max]
    ELSE [ret |-> max, avail |-> avail, max |-> max + 1]

\* the value returned and the allocator state after the call
getNextLoopbackInstance(avail, max) ==
    IF avail # {}
    THEN [ret |-> SetMin(avail), avail |-> avail \ {SetMin(avail)}, max |-> max]
    ELSE [ret |-> max, avail |-> avail, max |-> max + 1]

\* a variant that forgets the released number
markLoopbackInstanceDeleted_Dropped(avail, instance) == avail

markLoopbackInstanceDeleted(avail, instance) == avail \cup {instance}

(***************************************************************************)
(* Dual-stack loopback coordinator.                                        *)
(***************************************************************************)
\* inet_ntop of the destination, "" for an unrecognised family
extractDestinationIP(route) ==
    IF route.addr_family \in {SAI_IP_ADDR_FAMILY_IPV4, SAI_IP_ADDR_FAMILY_IPV6}
    THEN route.addr
    ELSE ""

\* vpp_ip_route_t built from the destination of a route entry
create_route_prefix(route) ==
    [sa_family |-> IF route.addr_family = SAI_IP_ADDR_FAMILY_IPV4
                   THEN AF_INET ELSE AF_INET6,
     addr |-> route.addr,
     prefix_len |-> route.len]

\* strips the 8 characters of "Loopback" and parses the rest
getInstanceFromHostIfname(interfaceName) == Stoi(Substr(interfaceName, 8))

\* "loop" + std::to_string(instance)
LoopName(instance) == "loop" \o ToString(instance)

\* a variant that erases only the entries of destinationIP itself
eraseDualStackEntries_OwnOnly(ipIf, ipHost, destinationIP) ==
    IF destinationIP \in DOMAIN ipIf /\ destinationIP \in DOMAIN ipHost
    THEN [ipIf |-> MapErase(ipIf, destinationIP),
          ipHost |-> MapErase(ipHost, destinationIP)]
    ELSE [ipIf |-> ipIf, ipHost |-> ipHost]

\* the two destination-IP maps after eraseDualStackEntries(destinationIP)
eraseDualStackEntries(ipIf, ipHost, destinationIP) ==
    IF destinationIP \in DOMAIN ipIf /\ destinationIP \in DOMAIN ipHost
    THEN LET interfaceName == ipIf[destinationIP]
             hostIfName == ipHost[destinationIP]
         IN  [ipIf |-> [d \in {x \in DOMAIN ipIf : ipIf[x] # interfaceName}
                            |-> ipIf[d]],
              ipHost |-> [d \in {x \in DOMAIN ipHost : ipHost[x] # hostIfName}
                            |-> ipHost[d]]]
    ELSE [ipIf |-> ipIf, ipHost |-> ipHost]

\* a variant that gives up at the first failing dataplane step, releasing
\* the instance and recording nothing
LpbAddFull_AbortsOnError(route, hostIfname, retCreate, retAddr, retLnkDel, retLnkAdd) ==
    LET destinationIP == extractDestinationIP(route)
        alloc == getNextLoopbackInstance(availableInstances, currentMaxInstance)
        instance == alloc.ret
        interfaceName == LoopName(instance)
        ip_route == create_route_prefix(route)
    IN  IF retCreate # 0 \/ retAddr # 0
        THEN [inst |-> lpbInstMap, ipIf |-> lpbIpToIfMap,
              ipHost |-> lpbIpToHostIfMap,
              avail |-> alloc.avail \cup {instance}, max |-> alloc.max,
              status |-> "SAI_STATUS_FAILURE",
              calls |->
                << [fn |-> "create_loopback_instance",
                    hw_ifname |-> interfaceName, instance |-> instance,
                    ret |-> retCreate] >>]
        ELSE
        [inst |-> MapSet(lpbInstMap, interfaceName, instance),
         ipIf |-> MapSet(lpbIpToIfMap, destinationIP, interfaceName),
         ipHost |-> MapSet(lpbIpToHostIfMap, destinationIP, hostIfname),
         avail |-> alloc.avail,
         max |-> alloc.max,
         status |-> "SAI_STATUS_SUCCESS",
         calls |->
            << [fn |-> "create_loopback_instance", hw_ifname |-> interfaceName,
                instance |-> instance, ret |-> retCreate],
               [fn |-> "refresh_interfaces_list"],
               [fn |-> "interface_ip_address_add_del", hw_ifname |-> interfaceName,
                prefix |-> ip_route, is_add |-> TRUE, ret |-> retAddr],
               [fn |-> "interface_set_state", hw_ifname |-> interfaceName,
                is_up |-> TRUE],
               [fn |-> "configureLoopbackInterface", isAdd |-> FALSE,
                hostIfname |-> hostIfname, ret |-> retLnkDel],
               [fn |-> "configure_lcp_interface", vpp_name |-> interfaceName,
                sonic_name |-> hostIfname, is_add |-> TRUE],
               [fn |-> "configureLoopbackInterface", isAdd |-> TRUE,
                hostIfname |-> hostIfname, destinationIp |-> destinationIP,
                prefixLen |-> ip_route.prefix_len, ret |-> retLnkAdd] >>]

\* vpp_add_del_lpb_intf_ip_addr, is_add: full creation of a dataplane
\* loopback for the destination.  hostIfname is what the second reverse
\* lookup prints; retCreate, retAddr, retLnkDel, retLnkAdd are the statuses
\* of the dataplane and OS steps, which the code only logs.
LpbAddFull(route, hostIfname, retCreate, retAddr, retLnkDel, retLnkAdd) ==
    LET destinationIP == extractDestinationIP(route)
        alloc == getNextLoopbackInstance(availableInstances, currentMaxInstance)
        instance == alloc.ret
        interfaceName == LoopName(instance)
        ip_route == create_route_prefix(route)
    IN  [inst |-> MapSet(lpbInstMap, interfaceName, instance),
         ipIf |-> MapSet(lpbIpToIfMap, destinationIP, interfaceName),
         ipHost |-> MapSet(lpbIpToHostIfMap, destinationIP, hostIfname),
         avail |-> alloc.avail,
         max |-> alloc.max,
         status |-> "SAI_STATUS_SUCCESS",
         calls |->
            << [fn |-> "create_loopback_instance", hw_ifname |-> interfaceName,
                instance |-> instance, ret |-> retCreate],
               [fn |-> "refresh_interfaces_list"],
               [fn |-> "interface_ip_address_add_del", hw_ifname |-> interfaceName,
                prefix |-> ip_route, is_add |-> TRUE, ret |-> retAddr],
               [fn |-> "interface_set_state", hw_ifname |-> interfaceName,
                is_up |-> TRUE],
               [fn |-> "configureLoopbackInterface", isAdd |-> FALSE,
                hostIfname |-> hostIfname, ret |-> retLnkDel],
               [fn |-> "configure_lcp_interface", vpp_name |-> interfaceName,
                sonic_name |-> hostIfname, is_add |-> TRUE],
               [fn |-> "configureLoopbackInterface", isAdd |-> TRUE,
                hostIfname |-> hostIfname, destinationIp |-> destinationIP,
                prefixLen |-> ip_route.prefix_len, ret |-> retLnkAdd] >>]

\* vpp_add_del_lpb_intf_ip_addr, not is_add, entered with the destination-IP
\* to host map ipHost0 (process_interface_loopback has already indexed it)
LpbDel(route, ipHost0) ==
    LET destinationIP == extractDestinationIP(route)
        ipIf1 == MapTouch(lpbIpToIfMap, destinationIP, "")
        interfaceName == ipIf1[destinationIP]
        ipHost1 == MapTouch(ipHost0, destinationIP, "")
        inst1 == MapTouch(lpbInstMap, interfaceName, 0)
        instance == inst1[interfaceName]
        erased == eraseDualStackEntries(ipIf1, ipHost1, destinationIP)
    IN  [inst |-> MapErase(inst1, interfaceName),
         ipIf |-> erased.ipIf,
         ipHost |-> erased.ipHost,
         avail |-> markLoopbackInstanceDeleted(availableInstances, instance),
         max |-> currentMaxInstance,
         status |-> "SAI_STATUS_SUCCESS",
         calls |->
            << [fn |-> "delete_loopback", hw_ifname |-> interfaceName,
                instance |-> instance],
               [fn |-> "refresh_interfaces_list"] >>]

\* the calls of one kind among the calls of an operation
CallsOf(calls, fn) == {i \in 1..Len(calls) : calls[i].fn = fn}

\* history: the loopbacks the engine has created, after the calls of an
\* operation done for host
CreatedAfter(created, calls, host) ==
    [n \in DOMAIN created
        \cup {calls[i].hw_ifname : i \in CallsOf(calls, "create_loopback_instance")} |->
        IF \E i \in CallsOf(calls, "create_loopback_instance") : calls[i].hw_ifname = n
        THEN [host |-> host,
              instance |-> calls[CHOOSE i \in CallsOf(calls, "create_loopback_instance")
                                     : calls[i].hw_ifname = n].instance,
              live |-> TRUE]
        ELSE IF \E i \in CallsOf(calls, "delete_loopback") : calls[i].hw_ifname = n
        THEN [created[n] EXCEPT !.live = FALSE]
        ELSE created[n]]

\* process_interface_loopback, is_add.  host is what the reverse lookup of
\* the destination prints ("" when no device owns it).
process_interface_loopback_add(route, host, retCreate, retAddr, retLnkDel, retLnkAdd) ==
    LET destinationIP == extractDestinationIP(route)
        interfaceName == host
        isLoopback == StrFind(interfaceName, "Loopback") # npos
    IN  IF ~isLoopback
        THEN /\ lastOp' = [op |-> "lpb_add", route |-> route, host |-> host,
                           isLoopback |-> FALSE, path |-> "none",
                           status |-> "SAI_STATUS_SUCCESS", calls |-> <<>>]
             /\ lpbAdded' = lpbAdded \cup {<<destinationIP, host>>}
             /\ UNCHANGED <<lpbVars, lpbCreated>>
        ELSE LET vppIfName == LoopName(getInstanceFromHostIfname(interfaceName))
             IN  IF vppIfName \in DOMAIN lpbInstMap
                 THEN \* interface already exists - store dual stack IP
                      /\ lpbIpToIfMap' = MapSet(lpbIpToIfMap, destinationIP, vppIfName)
                      /\ lpbIpToHostIfMap' =
                            MapSet(lpbIpToHostIfMap, destinationIP, interfaceName)
                      /\ lastOp' = [op |-> "lpb_add", route |-> route, host |-> host,
                                    isLoopback |-> TRUE, path |-> "dual",
                                    status |-> "SAI_STATUS_SUCCESS", calls |-> <<>>]
                      /\ lpbAdded' = lpbAdded \cup {<<destinationIP, host>>}
                      /\ UNCHANGED <<lpbInstMap, availableInstances,
                                     currentMaxInstance, lpbCreated>>
                 ELSE \E r \in {LpbAddFull(route, host, retCreate, retAddr,
                                           retLnkDel, retLnkAdd)} :
                          /\ availableInstances # {} \/ currentMaxInstance < MaxInstance
                          /\ lpbInstMap' = r.inst
                          /\ lpbIpToIfMap' = r.ipIf
                          /\ lpbIpToHostIfMap' = r.ipHost
                          /\ availableInstances' = r.avail
                          /\ currentMaxInstance' = r.max
                          /\ lastOp' = [op |-> "lpb_add", route |-> route,
                                        host |-> host, isLoopback |-> TRUE,
                                        path |-> "full", status |-> "SAI_STATUS_SUCCESS",
                                        calls |-> r.calls]
                          /\ lpbAdded' = lpbAdded \cup {<<destinationIP, host>>}
                          /\ lpbCreated' = CreatedAfter(lpbCreated, r.calls, host)

\* process_interface_loopback, not is_add
process_interface_loopback_del(route) ==
    LET destinationIP == extractDestinationIP(route)
        ipHost0 == MapTouch(lpbIpToHostIfMap, destinationIP, "")
        interfaceName == ipHost0[destinationIP]
        isLoopback == StrFind(interfaceName, "Loopback") # npos
    IN  /\ lpbAdded' = {a \in lpbAdded : a[1] # destinationIP}
        /\ IF ~isLoopback
           THEN /\ lpbIpToHostIfMap' = ipHost0
                /\ lastOp' = [op |-> "lpb_del", route |-> route, host |-> interfaceName,
                              isLoopback |-> FALSE, path |-> "none",
                              erasedIf |-> {}, erasedHost |-> {},
                              status |-> "SAI_STATUS_SUCCESS", calls |-> <<>>]
                /\ UNCHANGED <<lpbInstMap, lpbIpToIfMap, availableInstances,
                               currentMaxInstance, lpbCreated>>
           ELSE \E r \in {LpbDel(route, ipHost0)} :
                    /\ lpbInstMap' = r.inst
                    /\ lpbIpToIfMap' = r.ipIf
                    /\ lpbIpToHostIfMap' = r.ipHost
                    /\ availableInstances' = r.avail
                    /\ currentMaxInstance' = r.max
                    /\ lastOp' = [op |-> "lpb_del", route |-> route,
                                  host |-> interfaceName, isLoopback |-> TRUE,
                                  path |-> "full",
                                  erasedIf |-> DOMAIN lpbIpToIfMap \ DOMAIN r.ipIf,
                                  erasedHost |-> DOMAIN lpbIpToHostIfMap \ DOMAIN r.ipHost,
                                  status |-> "SAI_STATUS_SUCCESS",
                                  calls |-> r.calls]
                    /\ lpbCreated' = CreatedAfter(lpbCreated, r.calls, interfaceName)

\* the route of destinationIP has been added and not removed since
RouteExists(destinationIP) == \E a \in lpbAdded : a[1] = destinationIP

\* The route handler drives process_interface_loopback: a route entry is
\* created once, and only an existing route entry is removed.
ProcessInterfaceLoopbackAdd ==
    \E route \in Routes, host \in HostIfNames,
       retCreate \in RetCodes, retAddr \in RetCodes :
        /\ ~RouteExists(extractDestinationIP(route))
        /\ process_interface_loopback_add(route, host, retCreate, retAddr, 0, 0)
        /\ UNCHANGED <<vrfVars, addrVars, cfgVars, evVars, allocTrace>>

ProcessInterfaceLoopbackDel ==
    \E route \in Routes :
        /\ RouteExists(extractDestinationIP(route))
        /\ process_interface_loopback_del(route)
        /\ UNCHANGED <<vrfVars, addrVars, cfgVars, evVars, allocTrace>>

(***************************************************************************)
(* Initial state: the engine as constructed.                               *)
(***************************************************************************)
NoOp == [op |-> "none", status |-> "SAI_STATUS_SUCCESS", calls |-> <<>>]

InitEngine ==
    /\ vrf_objMap = EmptyMap
    /\ lpbInstMap = EmptyMap
    /\ lpbIpToIfMap = EmptyMap
    /\ lpbIpToHostIfMap = EmptyMap
    /\ availableInstances = {}
    /\ currentMaxInstance = 0
    /\ m_intf_prefix_map = EmptyMap
    /\ lastOp = NoOp
    /\ lpbAdded = {}
    /\ lpbCreated = EmptyMap
    /\ allocTrace = <<>>
    /\ m_run_vpp_events_thread = TRUE
    /\ evPc = "unstarted"
    /\ evQueue = <<>>
    /\ evp = nullptr
    /\ notifications = <<>>
    /\ evPosted = 0

\* tap devices in use: the configuration the dataplane paths run under
Init == InitEngine /\ m_useTapDevice = TRUE

\* either configuration
InitCfg == InitEngine /\ m_useTapDevice \in BOOLEAN

(***************************************************************************)
(* Direct use of the allocator.                                            *)
(***************************************************************************)
AllocStep ==
    LET r == getNextLoopbackInstance(availableInstances, currentMaxInstance)
    IN  /\ Len(allocTrace) < MaxAllocTrace
        /\ availableInstances # {} \/ currentMaxInstance < MaxInstance
        /\ availableInstances' = r.avail
        /\ currentMaxInstance' = r.max
        /\ lastOp' = [op |-> "alloc", ret |-> r.ret,
                      status |-> "SAI_STATUS_SUCCESS", calls |-> <<>>]
        /\ allocTrace' = Append(allocTrace, <<"alloc", r.ret>>)
        /\ UNCHANGED <<vrfVars, addrVars, cfgVars, evVars, lpbInstMap, lpbIpToIfMap,
                       lpbIpToHostIfMap, lpbHist>>

ReleaseStep ==
    \E instance \in 0..(MaxInstance - 1) :
        /\ Len(allocTrace) < MaxAllocTrace
        /\ availableInstances' = markLoopbackInstanceDeleted(availableInstances, instance)
        /\ lastOp' = [op |-> "release", instance |-> instance,
                      status |-> "SAI_STATUS_SUCCESS", calls |-> <<>>]
        /\ allocTrace' = Append(allocTrace, <<"release", instance>>)
        /\ UNCHANGED <<vrfVars, addrVars, cfgVars, evVars, lpbInstMap, lpbIpToIfMap,
                       lpbIpToHostIfMap, currentMaxInstance, lpbHist>>

NextAlloc == AllocStep \/ ReleaseStep

SpecAlloc == Init /\ [][NextAlloc]_vars

\* the route-derived loopback operations
NextLpb == ProcessInterfaceLoopbackAdd \/ ProcessInterfaceLoopbackDel

SpecLpb == Init /\ [][NextLpb]_vars


(***************************************************************************)
(* VRF lifecycle manager.                                                  *)
(***************************************************************************)
\* virtual-router object ids; 0 is SAI_NULL_OBJECT_ID, which
\* vpp_create_router_interface passes when the attribute is absent
VrfObjIds == {0, 1, 2}

\* numeric VRF (host table) ids; 0 is the default table
VrfIds == {0, 1, 5}

\* What std::string vrf_name = "vrf_" + vrf_id can hold.  The addition is
\* pointer arithmetic on the literal: the string starts vrf_id characters
\* into "vrf_", and past the terminator (vrf_id > 4) the read is undefined
\* and can yield any bytes.
VrfNameOutcomes(vrf_id) ==
    IF vrf_id <= 4 THEN {Substr("vrf_", vrf_id)} ELSE {"", "<stray bytes>"}

IpVrfInfo(obj_id, vrf_id, vrf_name, is_ipv6) ==
    [m_obj_id |-> obj_id, m_vrf_id |-> vrf_id,
     m_vrf_name |-> vrf_name, m_is_ipv6 |-> is_ipv6]

VPP_HASH_MASK == {"SRC_IP", "DST_IP", "SRC_PORT", "DST_PORT", "PROTO"}

\* a variant without the lookup of an existing descriptor
vpp_add_ip_vrf_NoLookup(map, objectId, vrf_id, vrf_name, retAdd, retHash) ==
    IF vrf_id = 0 \/ retAdd = 0
    THEN [map |-> MapSet(map, objectId, IpVrfInfo(objectId, vrf_id, vrf_name, FALSE)),
          path |-> "registered", ret |-> 0,
          calls |-> (IF vrf_id = 0 THEN <<>>
                     ELSE << [fn |-> "ip_vrf_add", vrf_id |-> vrf_id,
                              vrf_name |-> vrf_name, is_ipv6 |-> FALSE,
                              ret |-> retAdd] >>)
                    \o << [fn |-> "vpp_ip_flow_hash_set", vrf_id |-> vrf_id,
                           mask |-> VPP_HASH_MASK, af |-> AF_INET,
                           ret |-> retHash] >>]
    ELSE [map |-> map, path |-> "create_failed", ret |-> 0,
          calls |-> << [fn |-> "ip_vrf_add", vrf_id |-> vrf_id,
                        vrf_name |-> vrf_name, is_ipv6 |-> FALSE,
                        ret |-> retAdd] >>]

\* a variant that registers the descriptor whatever ip_vrf_add returned
vpp_add_ip_vrf_AlwaysRegisters(map, objectId, vrf_id, vrf_name, retAdd, retHash) ==
    IF objectId \in DOMAIN map
    THEN [map |-> map, path |-> "exists", ret |-> 0, calls |-> <<>>]
    ELSE [map |-> MapSet(map, objectId, IpVrfInfo(objectId, vrf_id, vrf_name, FALSE)),
          path |-> "registered", ret |-> 0,
          calls |-> (IF vrf_id = 0 THEN <<>>
                     ELSE << [fn |-> "ip_vrf_add", vrf_id |-> vrf_id,
                              vrf_name |-> vrf_name, is_ipv6 |-> FALSE,
                              ret |-> retAdd] >>)
                    \o << [fn |-> "vpp_ip_flow_hash_set", vrf_id |-> vrf_id,
                           mask |-> VPP_HASH_MASK, af |-> AF_INET,
                           ret |-> retHash] >>]

\* vpp_add_ip_vrf(objectId, vrf_id) on the map: the map after the call, the
\* branch taken, the value returned and the dataplane calls issued.
\* retAdd and retHash are what ip_vrf_add and vpp_ip_flow_hash_set return.
vpp_add_ip_vrf(map, objectId, vrf_id, vrf_name, retAdd, retHash) ==
    IF objectId \in DOMAIN map
    THEN [map |-> map, path |-> "exists", ret |-> 0, calls |-> <<>>]
    ELSE IF vrf_id = 0 \/ retAdd = 0
    THEN [map |-> MapSet(map, objectId, IpVrfInfo(objectId, vrf_id, vrf_name, FALSE)),
          path |-> "registered", ret |-> 0,
          calls |-> (IF vrf_id = 0 THEN <<>>
                     ELSE << [fn |-> "ip_vrf_add", vrf_id |-> vrf_id,
                              vrf_name |-> vrf_name, is_ipv6 |-> FALSE,
                              ret |-> retAdd] >>)
                    \o << [fn |-> "vpp_ip_flow_hash_set", vrf_id |-> vrf_id,
                           mask |-> VPP_HASH_MASK, af |-> AF_INET,
                           ret |-> retHash] >>]
    ELSE [map |-> map, path |-> "create_failed", ret |-> 0,
          calls |-> << [fn |-> "ip_vrf_add", vrf_id |-> vrf_id,
                        vrf_name |-> vrf_name, is_ipv6 |-> FALSE,
                        ret |-> retAdd] >>]

\* a variant that issues the dataplane delete and keeps the descriptor
vpp_del_ip_vrf_KeepsEntry(map, objectId) ==
    IF objectId \in DOMAIN map
    THEN [map |-> map, path |-> "deleted", ret |-> 0,
          calls |-> << [fn |-> "ip_vrf_del", vrf_id |-> map[objectId].m_vrf_id,
                        vrf_name |-> map[objectId].m_vrf_name,
                        is_ipv6 |-> map[objectId].m_is_ipv6] >>]
    ELSE [map |-> map, path |-> "absent", ret |-> 0, calls |-> <<>>]

\* vpp_del_ip_vrf(objectId) on the map
vpp_del_ip_vrf(map, objectId) ==
    IF objectId \in DOMAIN map
    THEN [map |-> MapErase(map, objectId), path |-> "deleted", ret |-> 0,
          calls |-> << [fn |-> "ip_vrf_del", vrf_id |-> map[objectId].m_vrf_id,
                        vrf_name |-> map[objectId].m_vrf_name,
                        is_ipv6 |-> map[objectId].m_is_ipv6] >>]
    ELSE [map |-> map, path |-> "absent", ret |-> 0, calls |-> <<>>]


\* vpp_get_ip_vrf(objectId) on the map
vpp_get_ip_vrf(map, objectId) ==
    IF objectId \in DOMAIN map THEN map[objectId] ELSE nullptr

VppAddIpVrf ==
    \E objectId \in VrfObjIds, vrf_id \in VrfIds,
       retAdd \in RetCodes, retHash \in RetCodes :
      \E vrf_name \in VrfNameOutcomes(vrf_id) :
        \E r \in {vpp_add_ip_vrf(vrf_objMap, objectId, vrf_id, vrf_name,
                                 retAdd, retHash)} :
            /\ vrf_objMap' = r.map
            /\ lastOp' = [op |-> "vpp_add_ip_vrf", objectId |-> objectId,
                          vrf_id |-> vrf_id, path |-> r.path, ret |-> r.ret,
                          status |-> "SAI_STATUS_SUCCESS", calls |-> r.calls]
            /\ UNCHANGED <<lpbVars, lpbHist, addrVars, cfgVars, evVars,
                           allocTrace>>

VppDelIpVrf ==
    \E objectId \in VrfObjIds :
        \E r \in {vpp_del_ip_vrf(vrf_objMap, objectId)} :
            /\ vrf_objMap' = r.map
            /\ lastOp' = [op |-> "vpp_del_ip_vrf", objectId |-> objectId,
                          path |-> r.path, ret |-> r.ret,
                          status |-> "SAI_STATUS_SUCCESS", calls |-> r.calls]
            /\ UNCHANGED <<lpbVars, lpbHist, addrVars, cfgVars, evVars,
                           allocTrace>>

\* removeVrf(objectId); internalStatus is what remove_internal returns
RemoveVrf ==
    \E objectId \in VrfObjIds,
       internalStatus \in {"SAI_STATUS_SUCCESS", "SAI_STATUS_FAILURE"} :
        \E r \in {IF m_useTapDevice
                  THEN vpp_del_ip_vrf(vrf_objMap, objectId)
                  ELSE [map |-> vrf_objMap, path |-> "skipped", ret |-> 0,
                        calls |-> <<>>]} :
            /\ vrf_objMap' = r.map
            /\ lastOp' = [op |-> "removeVrf", objectId |-> objectId,
                          path |-> r.path, ret |-> r.ret,
                          status |-> internalStatus,
                          calls |-> r.calls \o
                                    << [fn |-> "remove_internal",
                                        object_type |-> "SAI_OBJECT_TYPE_VIRTUAL_ROUTER",
                                        sid |-> objectId,
                                        ret |-> internalStatus] >>]
            /\ UNCHANGED <<lpbVars, lpbHist, addrVars, cfgVars, evVars,
                           allocTrace>>

NextVrf == VppAddIpVrf \/ VppDelIpVrf \/ RemoveVrf

SpecVrf == InitCfg /\ [][NextVrf]_vars

(***************************************************************************)
(* Interface address programmer.                                           *)
(***************************************************************************)
\* sai_serialize_ip_prefix: the address text, a slash, the mask length
sai_serialize_ip_prefix(ip_prefix) ==
    ip_prefix.addr \o "/" \o ToString(ip_prefix.len)

\* swss::IpPrefix(text) followed by copy(): split at the slash, read the
\* mask length, take the family from the address text
IpPrefixFromString(str) ==
    LET pos == StrFind(str, "/")
        ip  == IF pos = npos THEN str ELSE SubstrN(str, 0, pos)
    IN  [addr_family |-> IF StrFind(ip, ":") # npos
                         THEN SAI_IP_ADDR_FAMILY_IPV6
                         ELSE SAI_IP_ADDR_FAMILY_IPV4,
         addr |-> ip,
         len  |-> IF pos = npos
                  THEN (IF StrFind(ip, ":") # npos THEN 128 ELSE 32)
                  ELSE Stoi(Substr(str, pos + 1))]

\* the router interfaces in the object store, with the attributes get() finds
RouterInterfaces ==
    [rif \in {"rif_port", "rif_subport", "rif_vlan", "rif_lag", "rif_mpls",
              "rif_notap", "rif_unset", "rif_noport"} |->
        CASE rif = "rif_port" ->
               [SAI_ROUTER_INTERFACE_ATTR_TYPE |-> "SAI_ROUTER_INTERFACE_TYPE_PORT",
                SAI_ROUTER_INTERFACE_ATTR_PORT_ID |-> "port_Ethernet0"]
          [] rif = "rif_subport" ->
               [SAI_ROUTER_INTERFACE_ATTR_TYPE |-> "SAI_ROUTER_INTERFACE_TYPE_SUB_PORT",
                SAI_ROUTER_INTERFACE_ATTR_PORT_ID |-> "port_Ethernet0",
                SAI_ROUTER_INTERFACE_ATTR_OUTER_VLAN_ID |-> 10]
          [] rif = "rif_vlan" ->
               [SAI_ROUTER_INTERFACE_ATTR_TYPE |-> "SAI_ROUTER_INTERFACE_TYPE_VLAN",
                SAI_ROUTER_INTERFACE_ATTR_PORT_ID |-> "vlan_100"]
          [] rif = "rif_lag" ->
               [SAI_ROUTER_INTERFACE_ATTR_TYPE |-> "SAI_ROUTER_INTERFACE_TYPE_PORT",
                SAI_ROUTER_INTERFACE_ATTR_PORT_ID |-> "lag_1"]
          [] rif = "rif_mpls" ->
               [SAI_ROUTER_INTERFACE_ATTR_TYPE |-> "SAI_ROUTER_INTERFACE_TYPE_MPLS_ROUTER",
                SAI_ROUTER_INTERFACE_ATTR_PORT_ID |-> "port_Ethernet0"]
          [] rif = "rif_notap" ->
               [SAI_ROUTER_INTERFACE_ATTR_TYPE |-> "SAI_ROUTER_INTERFACE_TYPE_PORT",
                SAI_ROUTER_INTERFACE_ATTR_PORT_ID |-> "port_Ethernet4"]
          [] rif = "rif_noport" ->
               [SAI_ROUTER_INTERFACE_ATTR_TYPE |-> "SAI_ROUTER_INTERFACE_TYPE_PORT"]
          [] OTHER -> [none |-> TRUE] ]

\* get(SAI_OBJECT_TYPE_ROUTER_INTERFACE, rif_id, 1, &attr) succeeds
HasAttr(rif_id, attr) == attr \in DOMAIN RouterInterfaces[rif_id]

\* a variant that takes a VLAN object for an object of another type
objectTypeQuery_NoVlan(obj_id) ==
    CASE SubstrN(obj_id, 0, 5) = "port_" -> "SAI_OBJECT_TYPE_PORT"
      [] OTHER -> "SAI_OBJECT_TYPE_LAG"

objectTypeQuery(obj_id) ==
    CASE SubstrN(obj_id, 0, 5) = "port_" -> "SAI_OBJECT_TYPE_PORT"
      [] SubstrN(obj_id, 0, 5) = "vlan_" -> "SAI_OBJECT_TYPE_VLAN"
      [] OTHER -> "SAI_OBJECT_TYPE_LAG"

\* getTapNameFromPortId: the ports that have a host interface
TapNames == [p \in {"port_Ethernet0"} |-> "Ethernet0"]

\* tap_to_hwif_name: the dataplane name of a host interface
tap_to_hwif_name(if_name) == "bobm" \o Substr(if_name, 8)

\* "%s.%u" when the router interface carries a VLAN id
SubIfName(name, vlan_id) ==
    IF vlan_id # 0 THEN name \o "." \o ToString(vlan_id) ELSE name

\* the prefixes callers ask for
IpPrefixes ==
    { [addr_family |-> SAI_IP_ADDR_FAMILY_IPV4, addr |-> "10.0.0.1", len |-> 24],
      [addr_family |-> SAI_IP_ADDR_FAMILY_IPV6, addr |-> "fc00::1", len |-> 64] }

\* what "ip addr show dev <if> to <prefix>" can print for a requested
\* prefix: nothing, the prefix itself, another address inside it, or a line
\* the address parser takes for neither family
LiveAddresses(ip_prefix) ==
    IF ip_prefix.addr_family = SAI_IP_ADDR_FAMILY_IPV6
    THEN {"", "fc00::1/64", "-/0"}
    ELSE {"", "10.0.0.1/24", "10.0.0.2/24"}

\* a variant that reports a live address whatever the query printed
vpp_get_intf_ip_address_AlwaysFound(res) == TRUE

\* vpp_get_intf_ip_address: true when the query printed something
vpp_get_intf_ip_address(res) == Len(res) # 0

\* vpp_get_intf_name_for_prefix: true when the reverse lookup printed a name
vpp_get_intf_name_for_prefix(ifname) == Len(ifname) # 0

vpp_intf_get_prefix_entry(map, key) == key \in DOMAIN map

\* a variant that leaves the entry in the store
vpp_intf_remove_prefix_entry_Kept(map, key) == map

vpp_intf_remove_prefix_entry(map, key) == MapErase(map, key)

\* get_intf_vlanid: split "<if_name>.<vlan>" at the first dot
get_intf_vlanid(sub_ifname) ==
    LET pos == StrFind(sub_ifname, ".")
    IN  IF pos = npos
        THEN [if_name |-> sub_ifname, vlan_id |-> 0]
        ELSE [if_name |-> SubstrN(sub_ifname, 0, pos),
              vlan_id |-> Stoi(Substr(sub_ifname, pos + 1))]

vpp_serialize_intf_data(k1, k2) == k1 \o "@" \o k2

\* a variant that hands back the whole record as the prefix text
vpp_deserialize_intf_data_WholeRecord(serializedData) ==
    LET pos == StrFind(serializedData, "@")
    IN  IF pos # npos
        THEN [k1 |-> SubstrN(serializedData, 0, pos), k2 |-> serializedData]
        ELSE [k1 |-> "", k2 |-> ""]

\* vpp_deserialize_intf_data: both outputs stay empty without the delimiter
vpp_deserialize_intf_data(serializedData) ==
    LET pos == StrFind(serializedData, "@")
    IN  IF pos # npos
        THEN [k1 |-> SubstrN(serializedData, 0, pos),
              k2 |-> Substr(serializedData, pos + 1)]
        ELSE [k1 |-> "", k2 |-> ""]

AF_UNSPEC == "AF_UNSPEC"

\* a variant that takes every address for IPv4
IpFamily_DefaultsToV4(ip) == IF StrFind(ip, ":") # npos THEN AF_INET6 ELSE AF_INET

\* m_ip.getIp().family of the resolved address
IpFamily(ip) ==
    IF StrFind(ip, ":") # npos THEN AF_INET6
    ELSE IF StrFind(ip, ".") # npos THEN AF_INET
    ELSE AF_UNSPEC

\* a variant that reports success whatever the dataplane returned
DataplaneStatus_AlwaysSuccess(ret) == "SAI_STATUS_SUCCESS"

\* the status returned after interface_ip_address_add_del
DataplaneStatus(ret) ==
    IF ret = 0 THEN "SAI_STATUS_SUCCESS" ELSE "SAI_STATUS_FAILURE"

\* a variant in which a remove without a store entry fails
NoEntryStatus_Failure == "SAI_STATUS_FAILURE"

\* the status of a remove that finds no store entry
NoEntryStatus == "SAI_STATUS_SUCCESS"

\* The common tail of both address functions: the family switch, the
\* dataplane name and interface_ip_address_add_del.  An unknown family
\* throws std::logic_error before the dataplane is called.
ProgramAddress(intf_ip_prefix, if_name, vlan_id, is_add, retDp) ==
    IF IpFamily(intf_ip_prefix.addr) \notin {AF_INET, AF_INET6}
    THEN [status |-> "std::logic_error", path |-> "invalid_family",
          calls |-> <<>>]
    ELSE [status |-> DataplaneStatus(retDp),
          path |-> IF is_add THEN "programmed" ELSE "removed",
          calls |-> << [fn |-> "interface_ip_address_add_del",
                        hw_ifname |-> SubIfName(tap_to_hwif_name(if_name), vlan_id),
                        sa_family |-> IpFamily(intf_ip_prefix.addr),
                        prefix_addr |-> intf_ip_prefix.addr,
                        prefix_len |-> intf_ip_prefix.len,
                        is_add |-> is_add, ret |-> retDp] >>]

\* an OS command run through swss::exec and what it printed
OsQuery(fn, dev, ip_prefix, res) ==
    [fn |-> fn, dev |-> dev, to |-> sai_serialize_ip_prefix(ip_prefix),
     res |-> res]

AddrEarly(map, path, status) ==
    [map |-> map, path |-> path, key |-> "", status |-> status, calls |-> <<>>]

\* vpp_add_del_intf_ip_addr(ip_prefix, rif_id, is_add) on the store: the
\* store after the call, the branch taken, the composite key, the status and
\* the dataplane calls.  res is what the live-address query printed (only
\* read when is_add), retDp what interface_ip_address_add_del returns.
vpp_add_del_intf_ip_addr(map, ip_prefix, rif_id, is_add, res, retDp) ==
    IF ~HasAttr(rif_id, "SAI_ROUTER_INTERFACE_ATTR_TYPE")
    THEN AddrEarly(map, "no_type", "SAI_STATUS_FAILURE")
    ELSE IF ~HasAttr(rif_id, "SAI_ROUTER_INTERFACE_ATTR_PORT_ID")
    THEN AddrEarly(map, "no_port", "SAI_STATUS_FAILURE")
    ELSE
    LET rif_type == RouterInterfaces[rif_id].SAI_ROUTER_INTERFACE_ATTR_TYPE
        obj_id   == RouterInterfaces[rif_id].SAI_ROUTER_INTERFACE_ATTR_PORT_ID
        ot       == objectTypeQuery(obj_id)
    IN
    IF ot = "SAI_OBJECT_TYPE_VLAN"
    THEN AddrEarly(map, "vlan", "SAI_STATUS_SUCCESS")
    ELSE IF ot # "SAI_OBJECT_TYPE_PORT"
    THEN AddrEarly(map, "not_port", "SAI_STATUS_FAILURE")
    ELSE IF rif_type \notin {"SAI_ROUTER_INTERFACE_TYPE_SUB_PORT",
                             "SAI_ROUTER_INTERFACE_TYPE_PORT",
                             "SAI_ROUTER_INTERFACE_TYPE_LOOPBACK"}
    THEN AddrEarly(map, "rif_type", "SAI_STATUS_SUCCESS")
    ELSE IF obj_id \notin DOMAIN TapNames
    THEN AddrEarly(map, "no_tap", "SAI_STATUS_FAILURE")
    ELSE
    LET vlan_id == IF HasAttr(rif_id, "SAI_ROUTER_INTERFACE_ATTR_OUTER_VLAN_ID")
                   THEN RouterInterfaces[rif_id].SAI_ROUTER_INTERFACE_ATTR_OUTER_VLAN_ID
                   ELSE 0
        if_name == TapNames[obj_id]
        is_v6 == ip_prefix.addr_family = SAI_IP_ADDR_FAMILY_IPV6
        linux_ifname == SubIfName(if_name, vlan_id)
        addr_family == IF is_v6 THEN "v6" ELSE "v4"
        ip_prefix_key == linux_ifname \o addr_family \o
                         sai_serialize_ip_prefix(ip_prefix)
        query == OsQuery("vpp_get_intf_ip_address", linux_ifname, ip_prefix, res)
    IN
    IF is_add
    THEN IF ~vpp_get_intf_ip_address(res)
         THEN [map |-> map, path |-> "no_address", key |-> ip_prefix_key,
               status |-> "SAI_STATUS_SUCCESS", calls |-> <<query>>]
         ELSE LET intf_ip_prefix == IpPrefixFromString(res)
                  t == ProgramAddress(intf_ip_prefix, if_name, vlan_id,
                                      is_add, retDp)
              IN  [map |-> MapSet(map, ip_prefix_key,
                                  sai_serialize_ip_prefix(intf_ip_prefix)),
                   path |-> t.path, key |-> ip_prefix_key,
                   status |-> t.status, calls |-> <<query>> \o t.calls]
    ELSE IF ~vpp_intf_get_prefix_entry(map, ip_prefix_key)
         THEN [map |-> map, path |-> "no_entry", key |-> ip_prefix_key,
               status |-> NoEntryStatus, calls |-> <<>>]
         ELSE LET intf_ip_prefix == IpPrefixFromString(map[ip_prefix_key])
                  t == ProgramAddress(intf_ip_prefix, if_name, vlan_id,
                                      is_add, retDp)
              IN  [map |-> vpp_intf_remove_prefix_entry(map, ip_prefix_key),
                   path |-> t.path, key |-> ip_prefix_key,
                   status |-> t.status, calls |-> t.calls]

\* the route entries the no-router-interface variant is called for, each
\* with the key its caller passes
NorifRequests ==
    { [ip_prefix_key |-> "route:" \o sai_serialize_ip_prefix(p),
       destination |-> p] : p \in IpPrefixes }

\* what the reverse lookup of a destination can print: nothing, a port
\* device or a sub-interface device
FoundIfNames == {"", "Ethernet0", "Ethernet0.10"}

\* vpp_add_del_intf_ip_addr_norif(ip_prefix_key, route_entry, is_add) on the
\* store.  found is what the reverse lookup printed and res what the
\* live-address query printed (both only read when is_add).
vpp_add_del_intf_ip_addr_norif(map, ip_prefix_key, destination, is_add, found, res, retDp) ==
    IF is_add /\ ~vpp_get_intf_name_for_prefix(found)
    THEN [map |-> map, path |-> "no_interface", key |-> ip_prefix_key,
          status |-> "SAI_STATUS_FAILURE",
          calls |-> << OsQuery("vpp_get_intf_name_for_prefix", "",
                               destination, found) >>]
    ELSE IF ~is_add /\ ~vpp_intf_get_prefix_entry(map, ip_prefix_key)
    THEN [map |-> map, path |-> "no_entry", key |-> ip_prefix_key,
          status |-> NoEntryStatus, calls |-> <<>>]
    ELSE
    LET intf_data0 == IF is_add THEN [k1 |-> found, k2 |-> ""]
                      ELSE vpp_deserialize_intf_data(map[ip_prefix_key])
        full_if_name == intf_data0.k1
        v == get_intf_vlanid(full_if_name)
        queries == << OsQuery("vpp_get_intf_name_for_prefix", "",
                              destination, found),
                      OsQuery("vpp_get_intf_ip_address", full_if_name,
                              destination, res) >>
    IN
    IF is_add
    THEN IF ~vpp_get_intf_ip_address(res)
         THEN [map |-> map, path |-> "no_address", key |-> ip_prefix_key,
               status |-> "SAI_STATUS_SUCCESS", calls |-> queries]
         ELSE LET intf_ip_prefix == IpPrefixFromString(res)
                  sai_prefix == sai_serialize_ip_prefix(intf_ip_prefix)
                  t == ProgramAddress(intf_ip_prefix, v.if_name, v.vlan_id,
                                      is_add, retDp)
              IN  [map |-> MapSet(map, ip_prefix_key,
                                  vpp_serialize_intf_data(full_if_name, sai_prefix)),
                   path |-> t.path, key |-> ip_prefix_key,
                   status |-> t.status, calls |-> queries \o t.calls]
    ELSE LET intf_ip_prefix == IpPrefixFromString(intf_data0.k2)
             t == ProgramAddress(intf_ip_prefix, v.if_name, v.vlan_id,
                                 is_add, retDp)
         IN  [map |-> vpp_intf_remove_prefix_entry(map, ip_prefix_key),
              path |-> t.path, key |-> ip_prefix_key,
              status |-> t.status, calls |-> t.calls]

VppAddDelIntfIpAddr ==
    \E ip_prefix \in IpPrefixes, rif_id \in DOMAIN RouterInterfaces,
       is_add \in BOOLEAN, retDp \in RetCodes :
      \E res \in (IF is_add THEN LiveAddresses(ip_prefix) ELSE {""}) :
        \E r \in {vpp_add_del_intf_ip_addr(m_intf_prefix_map, ip_prefix,
                                           rif_id, is_add, res, retDp)} :
            /\ Cardinality(DOMAIN r.map) <= MaxStoreEntries
            /\ m_intf_prefix_map' = r.map
            /\ lastOp' = [op |-> "vpp_add_del_intf_ip_addr",
                          ip_prefix |-> ip_prefix, rif_id |-> rif_id,
                          is_add |-> is_add, res |-> res, path |-> r.path,
                          key |-> r.key, status |-> r.status,
                          calls |-> r.calls]
            /\ UNCHANGED <<vrfVars, lpbVars, lpbHist, cfgVars, evVars, allocTrace>>

VppAddDelIntfIpAddrNorif ==
    \E req \in NorifRequests, is_add \in BOOLEAN, retDp \in RetCodes :
      \E found \in (IF is_add THEN FoundIfNames ELSE {""}),
         res \in (IF is_add THEN LiveAddresses(req.destination) ELSE {""}) :
        \E r \in {vpp_add_del_intf_ip_addr_norif(m_intf_prefix_map,
                        req.ip_prefix_key, req.destination, is_add,
                        found, res, retDp)} :
            /\ Cardinality(DOMAIN r.map) <= MaxStoreEntries
            /\ m_intf_prefix_map' = r.map
            /\ lastOp' = [op |-> "vpp_add_del_intf_ip_addr_norif",
                          ip_prefix |-> req.destination, found |-> found,
                          is_add |-> is_add, res |-> res, path |-> r.path,
                          key |-> r.key, status |-> r.status,
                          calls |-> r.calls]
            /\ UNCHANGED <<vrfVars, lpbVars, lpbHist, cfgVars, evVars, allocTrace>>

NextAddr == VppAddDelIntfIpAddr \/ VppAddDelIntfIpAddrNorif

SpecAddr == Init /\ [][NextAddr]_vars

(***************************************************************************)
(* Router-interface state machine.                                         *)
(***************************************************************************)
\* an attribute list without attributes
NoAttrs == [a \in {} |-> 0]

\* sai_metadata_get_attr_by_id(id, attr_count, attr_list) != NULL
Passed(attr_list, id) == id \in DOMAIN attr_list

\* the attribute lists callers pass to create: every combination of type,
\* port and outer VLAN id, and for the port and the sub-port of Ethernet0 a
\* virtual router, an MTU and admin states as well
BaseAttrLists ==
    { t @@ p @@ v :
        t \in { NoAttrs,
                [SAI_ROUTER_INTERFACE_ATTR_TYPE |-> "SAI_ROUTER_INTERFACE_TYPE_PORT"],
                [SAI_ROUTER_INTERFACE_ATTR_TYPE |-> "SAI_ROUTER_INTERFACE_TYPE_SUB_PORT"],
                [SAI_ROUTER_INTERFACE_ATTR_TYPE |-> "SAI_ROUTER_INTERFACE_TYPE_VLAN"] },
        p \in { NoAttrs,
                [SAI_ROUTER_INTERFACE_ATTR_PORT_ID |-> "port_Ethernet0"],
                [SAI_ROUTER_INTERFACE_ATTR_PORT_ID |-> "port_Ethernet4"],
                [SAI_ROUTER_INTERFACE_ATTR_PORT_ID |-> "vlan_100"],
                [SAI_ROUTER_INTERFACE_ATTR_PORT_ID |-> "lag_1"] },
        v \in { NoAttrs, [SAI_ROUTER_INTERFACE_ATTR_OUTER_VLAN_ID |-> 10] } }

\* the attributes a set request changes
ChangedAttrLists ==
    { NoAttrs,
      [SAI_ROUTER_INTERFACE_ATTR_MTU |-> 9100,
       SAI_ROUTER_INTERFACE_ATTR_ADMIN_V4_STATE |-> TRUE],
      [SAI_ROUTER_INTERFACE_ATTR_ADMIN_V6_STATE |-> FALSE] }

AttrLists ==
    BaseAttrLists \cup
    { b @@ r @@ m :
        b \in { [SAI_ROUTER_INTERFACE_ATTR_TYPE |-> "SAI_ROUTER_INTERFACE_TYPE_PORT",
                 SAI_ROUTER_INTERFACE_ATTR_PORT_ID |-> "port_Ethernet0"],
                [SAI_ROUTER_INTERFACE_ATTR_TYPE |-> "SAI_ROUTER_INTERFACE_TYPE_SUB_PORT",
                 SAI_ROUTER_INTERFACE_ATTR_PORT_ID |-> "port_Ethernet0",
                 SAI_ROUTER_INTERFACE_ATTR_OUTER_VLAN_ID |-> 10] },
        r \in { NoAttrs, [SAI_ROUTER_INTERFACE_ATTR_VIRTUAL_ROUTER_ID |-> 1] },
        m \in ChangedAttrLists }

\* the values the uninitialised vrf_id of vpp_create_router_interface may hold
StrayVrfIds == {0, 5}

\* what the two commands of vpp_get_vrf_id can yield: a failed command, no
\* vrf_slave table, or a table number
VrfQueryOutcomes ==
    { [ret |-> -1, res |-> ""], [ret |-> 0, res |-> ""], [ret |-> 0, res |-> "1"] }

\* vpp_get_hwif_name(object_id, vlan_id): the dataplane name, "" when the
\* port has no host interface
vpp_get_hwif_name(object_id, vlan_id) ==
    IF object_id \notin DOMAIN TapNames THEN ""
    ELSE SubIfName(tap_to_hwif_name(TapNames[object_id]), vlan_id)

\* vpp_set_interface_state: the dataplane calls it issues
vpp_set_interface_state(object_id, vlan_id, is_up, nbrActive) ==
    IF ~nbrActive \/ vpp_get_hwif_name(object_id, vlan_id) = "" THEN <<>>
    ELSE << [fn |-> "interface_set_state",
             hw_ifname |-> vpp_get_hwif_name(object_id, vlan_id),
             is_up |-> is_up] >>

\* vpp_set_interface_mtu: the dataplane calls it issues
vpp_set_interface_mtu(object_id, vlan_id, mtu, type, nbrActive) ==
    IF ~nbrActive \/ vpp_get_hwif_name(object_id, vlan_id) = "" THEN <<>>
    ELSE << [fn |-> "sw_interface_set_mtu",
             hw_ifname |-> vpp_get_hwif_name(object_id, vlan_id),
             mtu |-> mtu, type |-> type] >>

\* the MTU and admin-state tail shared by create and update
MtuAndStateCalls(attr_list, obj_id, vlan_id, nbrActive) ==
    (IF Passed(attr_list, "SAI_ROUTER_INTERFACE_ATTR_MTU")
     THEN vpp_set_interface_mtu(obj_id, vlan_id,
              attr_list.SAI_ROUTER_INTERFACE_ATTR_MTU, AF_INET, nbrActive)
          \o vpp_set_interface_mtu(obj_id, vlan_id,
              attr_list.SAI_ROUTER_INTERFACE_ATTR_MTU, AF_INET6, nbrActive)
     ELSE <<>>)
    \o
    (IF Passed(attr_list, "SAI_ROUTER_INTERFACE_ATTR_ADMIN_V4_STATE")
        \/ Passed(attr_list, "SAI_ROUTER_INTERFACE_ATTR_ADMIN_V6_STATE")
     THEN vpp_set_interface_state(obj_id, vlan_id,
              (Passed(attr_list, "SAI_ROUTER_INTERFACE_ATTR_ADMIN_V4_STATE")
                  /\ attr_list.SAI_ROUTER_INTERFACE_ATTR_ADMIN_V4_STATE)
              \/ (Passed(attr_list, "SAI_ROUTER_INTERFACE_ATTR_ADMIN_V6_STATE")
                  /\ attr_list.SAI_ROUTER_INTERFACE_ATTR_ADMIN_V6_STATE),
              nbrActive)
     ELSE <<>>)

RifEarly(map, path, status) ==
    [map |-> map, path |-> path, status |-> status, calls |-> <<>>]

\* the attribute checks of vpp_create_router_interface: the early outcome,
\* or "" when the interface is to be created
RifCreateEarly(attr_list) ==
    IF ~Passed(attr_list, "SAI_ROUTER_INTERFACE_ATTR_TYPE") THEN "no_type"
    ELSE IF attr_list.SAI_ROUTER_INTERFACE_ATTR_TYPE \notin
                {"SAI_ROUTER_INTERFACE_TYPE_SUB_PORT",
                 "SAI_ROUTER_INTERFACE_TYPE_PORT"} THEN "rif_type"
    ELSE IF ~Passed(attr_list, "SAI_ROUTER_INTERFACE_ATTR_PORT_ID") THEN "no_port"
    ELSE IF objectTypeQuery(attr_list.SAI_ROUTER_INTERFACE_ATTR_PORT_ID)
                = "SAI_OBJECT_TYPE_VLAN" THEN "vlan"
    ELSE IF objectTypeQuery(attr_list.SAI_ROUTER_INTERFACE_ATTR_PORT_ID)
                # "SAI_OBJECT_TYPE_PORT" THEN "not_port"
    ELSE IF ~Passed(attr_list, "SAI_ROUTER_INTERFACE_ATTR_OUTER_VLAN_ID")
            /\ attr_list.SAI_ROUTER_INTERFACE_ATTR_TYPE
                = "SAI_ROUTER_INTERFACE_TYPE_SUB_PORT" THEN "no_vlan"
    ELSE IF attr_list.SAI_ROUTER_INTERFACE_ATTR_PORT_ID \notin DOMAIN TapNames
    THEN "no_tap"
    ELSE ""

RifCreateStatus(early) ==
    IF early \in {"rif_type", "no_port", "vlan"} THEN "SAI_STATUS_SUCCESS"
    ELSE "SAI_STATUS_FAILURE"

\* vpp_create_router_interface(attr_count, attr_list) on the VRF map.
\* query is what vpp_get_vrf_id's commands yield; stray is the value the
\* uninitialised vrf_id holds when the query fails; vrf_name, retAdd and
\* retHash are as in vpp_add_ip_vrf; nbrActive is is_ip_nbr_active().
vpp_create_router_interface(map, attr_list, query, stray, vrf_name, retAdd, retHash, nbrActive) ==
    IF RifCreateEarly(attr_list) # ""
    THEN RifEarly(map, RifCreateEarly(attr_list),
                  RifCreateStatus(RifCreateEarly(attr_list)))
    ELSE
    LET rif_type == attr_list.SAI_ROUTER_INTERFACE_ATTR_TYPE
        obj_id == attr_list.SAI_ROUTER_INTERFACE_ATTR_PORT_ID
        is_sub == rif_type = "SAI_ROUTER_INTERFACE_TYPE_SUB_PORT"
    IN
    LET vlan_id == IF Passed(attr_list, "SAI_ROUTER_INTERFACE_ATTR_OUTER_VLAN_ID")
                   THEN attr_list.SAI_ROUTER_INTERFACE_ATTR_OUTER_VLAN_ID ELSE 0
        dev == TapNames[obj_id]
        linux_ifname == IF is_sub THEN dev \o "." \o ToString(vlan_id) ELSE dev
        vrf_obj_id == IF Passed(attr_list, "SAI_ROUTER_INTERFACE_ATTR_VIRTUAL_ROUTER_ID")
                      THEN attr_list.SAI_ROUTER_INTERFACE_ATTR_VIRTUAL_ROUTER_ID
                      ELSE 0
        ret == query.ret
        vrf_id == IF ret # 0 THEN stray
                  ELSE IF Len(query.res) # 0 THEN Stoi(query.res) ELSE 0
        vrf == vpp_add_ip_vrf(map, vrf_obj_id, vrf_id, vrf_name, retAdd, retHash)
    IN  [map |-> vrf.map, path |-> "created", status |-> "SAI_STATUS_SUCCESS",
         calls |->
            (IF is_sub
             THEN << [fn |-> "create_sub_interface",
                      hw_ifname |-> tap_to_hwif_name(dev),
                      sub_id |-> vlan_id, vlan_id |-> vlan_id],
                     [fn |-> "refresh_interfaces_list"] >>
             ELSE <<>>)
            \o << [fn |-> "vpp_get_vrf_id", dev |-> linux_ifname,
                   ret |-> ret, res |-> query.res] >>
            \o vrf.calls
            \o (IF ret = 0 /\ vrf_id # 0
                THEN << [fn |-> "set_interface_vrf",
                         hw_ifname |-> tap_to_hwif_name(dev),
                         sub_id |-> vlan_id, vrf_id |-> vrf_id,
                         is_ipv6 |-> FALSE] >>
                ELSE <<>>)
            \o MtuAndStateCalls(attr_list, obj_id, vlan_id, nbrActive)]

\* a variant that leaves the interface in its VRF
vpp_router_interface_remove_vrf_Skipped(obj_id) == <<>>

\* vpp_router_interface_remove_vrf(obj_id): the dataplane calls it issues
vpp_router_interface_remove_vrf(obj_id) ==
    IF obj_id \notin DOMAIN TapNames THEN <<>>
    ELSE << [fn |-> "set_interface_vrf",
             hw_ifname |-> tap_to_hwif_name(TapNames[obj_id]),
             sub_id |-> 0, vrf_id |-> 0, is_ipv6 |-> FALSE] >>

\* the attribute checks update and remove share, up to the sub-port test:
\* the early outcome, or "" when the router interface is a sub-port of a port
RifStoredEarly(rif_id) ==
    IF ~HasAttr(rif_id, "SAI_ROUTER_INTERFACE_ATTR_TYPE") THEN "no_type"
    ELSE IF ~HasAttr(rif_id, "SAI_ROUTER_INTERFACE_ATTR_PORT_ID") THEN "no_port"
    ELSE IF objectTypeQuery(RouterInterfaces[rif_id].SAI_ROUTER_INTERFACE_ATTR_PORT_ID)
               = "SAI_OBJECT_TYPE_VLAN" THEN "vlan"
    ELSE IF objectTypeQuery(RouterInterfaces[rif_id].SAI_ROUTER_INTERFACE_ATTR_PORT_ID)
               # "SAI_OBJECT_TYPE_PORT" THEN "not_port"
    ELSE IF RouterInterfaces[rif_id].SAI_ROUTER_INTERFACE_ATTR_TYPE
               # "SAI_ROUTER_INTERFACE_TYPE_SUB_PORT" THEN "reset_vrf"
    ELSE IF ~HasAttr(rif_id, "SAI_ROUTER_INTERFACE_ATTR_OUTER_VLAN_ID") THEN "no_vlan"
    ELSE ""

RifStoredStatus(early) ==
    IF early \in {"vlan", "reset_vrf"} THEN "SAI_STATUS_SUCCESS"
    ELSE "SAI_STATUS_FAILURE"

\* vpp_update_router_interface(object_id, attr_count, attr_list)
vpp_update_router_interface(object_id, attr_list, nbrActive) ==
    LET early == RifStoredEarly(object_id)
    IN  IF early = "reset_vrf"
        THEN [path |-> early, status |-> RifStoredStatus(early),
              calls |-> vpp_router_interface_remove_vrf(
                          RouterInterfaces[object_id].SAI_ROUTER_INTERFACE_ATTR_PORT_ID)]
        ELSE IF early # ""
        THEN [path |-> early, status |-> RifStoredStatus(early), calls |-> <<>>]
        ELSE [path |-> "updated", status |-> "SAI_STATUS_SUCCESS",
              calls |-> MtuAndStateCalls(attr_list,
                          RouterInterfaces[object_id].SAI_ROUTER_INTERFACE_ATTR_PORT_ID,
                          RouterInterfaces[object_id].SAI_ROUTER_INTERFACE_ATTR_OUTER_VLAN_ID,
                          nbrActive)]

\* vpp_remove_router_interface(rif_id)
vpp_remove_router_interface(rif_id) ==
    LET early == RifStoredEarly(rif_id)
        obj_id == RouterInterfaces[rif_id].SAI_ROUTER_INTERFACE_ATTR_PORT_ID
    IN  IF early = "reset_vrf"
        THEN [path |-> early, status |-> RifStoredStatus(early),
              calls |-> vpp_router_interface_remove_vrf(obj_id)]
        ELSE IF early # ""
        THEN [path |-> early, status |-> RifStoredStatus(early), calls |-> <<>>]
        ELSE IF obj_id \notin DOMAIN TapNames
        THEN [path |-> "no_tap", status |-> "SAI_STATUS_FAILURE", calls |-> <<>>]
        ELSE [path |-> "removed", status |-> "SAI_STATUS_SUCCESS",
              calls |-> << [fn |-> "delete_sub_interface",
                            hw_ifname |-> tap_to_hwif_name(TapNames[obj_id]),
                            sub_id |->
                              RouterInterfaces[rif_id].SAI_ROUTER_INTERFACE_ATTR_OUTER_VLAN_ID],
                           [fn |-> "refresh_interfaces_list"] >>]

\* the environment is only read on the path that reaches it
VppCreateRouterInterface ==
    \E attr_list \in AttrLists :
      \E full \in {RifCreateEarly(attr_list) = ""} :
        \E query \in (IF full THEN VrfQueryOutcomes ELSE {[ret |-> 0, res |-> ""]}),
           nbrActive \in (IF full /\ DOMAIN attr_list \cap
                                  {"SAI_ROUTER_INTERFACE_ATTR_MTU",
                                   "SAI_ROUTER_INTERFACE_ATTR_ADMIN_V4_STATE",
                                   "SAI_ROUTER_INTERFACE_ATTR_ADMIN_V6_STATE"} # {}
                          THEN BOOLEAN ELSE {TRUE}) :
          \E vrf_id \in (IF query.ret # 0 THEN StrayVrfIds
                         ELSE IF Len(query.res) # 0 THEN {Stoi(query.res)}
                         ELSE {0}) :
            \E adds \in {full /\ vrf_id # 0
                         /\ (IF Passed(attr_list,
                                   "SAI_ROUTER_INTERFACE_ATTR_VIRTUAL_ROUTER_ID")
                             THEN attr_list.SAI_ROUTER_INTERFACE_ATTR_VIRTUAL_ROUTER_ID
                             ELSE 0) \notin DOMAIN vrf_objMap} :
              \E retAdd \in (IF adds THEN RetCodes ELSE {0}),
                 vrf_name \in (IF adds THEN VrfNameOutcomes(vrf_id)
                               ELSE {"vrf_"}) :
                \E r \in {vpp_create_router_interface(vrf_objMap, attr_list,
                              query, vrf_id, vrf_name, retAdd, 0, nbrActive)} :
                  /\ vrf_objMap' = r.map
                  /\ lastOp' = [op |-> "vpp_create_router_interface",
                                attr_list |-> attr_list, path |-> r.path,
                                status |-> r.status, calls |-> r.calls]
                  /\ UNCHANGED <<lpbVars, lpbHist, addrVars, cfgVars, evVars, allocTrace>>

VppUpdateRouterInterface ==
    \E object_id \in DOMAIN RouterInterfaces, attr_list \in ChangedAttrLists :
      \E nbrActive \in (IF RifStoredEarly(object_id) = "" /\ attr_list # NoAttrs
                        THEN BOOLEAN ELSE {TRUE}) :
        \E r \in {vpp_update_router_interface(object_id, attr_list, nbrActive)} :
            /\ lastOp' = [op |-> "vpp_update_router_interface",
                          rif_id |-> object_id, attr_list |-> attr_list,
                          path |-> r.path, status |-> r.status,
                          calls |-> r.calls]
            /\ UNCHANGED <<vrfVars, lpbVars, lpbHist, addrVars, cfgVars, evVars,
                           allocTrace>>

VppRemoveRouterInterface ==
    \E rif_id \in DOMAIN RouterInterfaces :
        \E r \in {vpp_remove_router_interface(rif_id)} :
            /\ lastOp' = [op |-> "vpp_remove_router_interface",
                          rif_id |-> rif_id, path |-> r.path,
                          status |-> r.status, calls |-> r.calls]
            /\ UNCHANGED <<vrfVars, lpbVars, lpbHist, addrVars, cfgVars, evVars,
                           allocTrace>>

\* address calls on the router interfaces that lead to no host device
VppAddDelIntfIpAddrNoDevice ==
    \E ip_prefix \in IpPrefixes, is_add \in BOOLEAN,
       rif_id \in {r \in DOMAIN RouterInterfaces : r \notin {"rif_port", "rif_subport"}} :
        \E r \in {vpp_add_del_intf_ip_addr(m_intf_prefix_map, ip_prefix,
                                           rif_id, is_add, "", 0)} :
            /\ m_intf_prefix_map' = r.map
            /\ lastOp' = [op |-> "vpp_add_del_intf_ip_addr",
                          ip_prefix |-> ip_prefix, rif_id |-> rif_id,
                          is_add |-> is_add, res |-> "", path |-> r.path,
                          key |-> r.key, status |-> r.status,
                          calls |-> r.calls]
            /\ UNCHANGED <<vrfVars, lpbVars, lpbHist, cfgVars, evVars, allocTrace>>

NextRif ==
    \/ VppCreateRouterInterface
    \/ VppUpdateRouterInterface
    \/ VppRemoveRouterInterface
    \/ VppAddDelIntfIpAddrNoDevice

SpecRif == Init /\ [][NextRif]_vars

(***************************************************************************)
(* Entry points of the request dispatcher.                                 *)
(***************************************************************************)
\* the object ids createRouterif is called for: the router interfaces in
\* the object store and one that is not there yet
RifObjectIds == DOMAIN RouterInterfaces \cup {"rif_new"}

\* what get(SAI_OBJECT_TYPE_ROUTER_INTERFACE, object_id, TYPE) can return
GetTypeStatuses(object_id) ==
    IF object_id \notin DOMAIN RouterInterfaces
    THEN {"SAI_STATUS_ITEM_NOT_FOUND"}
    ELSE IF HasAttr(object_id, "SAI_ROUTER_INTERFACE_ATTR_TYPE")
    THEN {"SAI_STATUS_SUCCESS"}
    ELSE {"SAI_STATUS_FAILURE"}

InternalStatuses ==
    {"SAI_STATUS_SUCCESS", "SAI_STATUS_ITEM_ALREADY_EXISTS", "SAI_STATUS_FAILURE"}

\* the attribute lists of the dispatcher's requests
DispatchAttrLists ==
    { NoAttrs,
      [SAI_ROUTER_INTERFACE_ATTR_TYPE |-> "SAI_ROUTER_INTERFACE_TYPE_PORT",
       SAI_ROUTER_INTERFACE_ATTR_PORT_ID |-> "port_Ethernet0",
       SAI_ROUTER_INTERFACE_ATTR_VIRTUAL_ROUTER_ID |-> 1],
      [SAI_ROUTER_INTERFACE_ATTR_TYPE |-> "SAI_ROUTER_INTERFACE_TYPE_PORT",
       SAI_ROUTER_INTERFACE_ATTR_PORT_ID |-> "lag_1"],
      [SAI_ROUTER_INTERFACE_ATTR_MTU |-> 9100,
       SAI_ROUTER_INTERFACE_ATTR_ADMIN_V4_STATE |-> TRUE] }

\* a variant that takes every failed lookup for a missing object
RifDispatch_AnyFailureCreates(getStatus) ==
    IF getStatus # "SAI_STATUS_SUCCESS" THEN "create" ELSE "update"

\* the dataplane step createRouterif chooses from the status of get()
RifDispatch(getStatus) ==
    IF getStatus = "SAI_STATUS_ITEM_NOT_FOUND" THEN "create" ELSE "update"

\* createRouterif(object_id, switch_id, attr_count, attr_list): the VRF map
\* after it, the dataplane step run with its status, the returned status and
\* the calls.  getStatus is what get() returns, internalStatus what
\* create_internal returns; retAdd is as in vpp_add_ip_vrf.
createRouterif(map, useTap, object_id, attr_list, getStatus, internalStatus, retAdd) ==
    LET internal == << [fn |-> "create_internal",
                        object_type |-> "SAI_OBJECT_TYPE_ROUTER_INTERFACE",
                        sid |-> object_id, ret |-> internalStatus] >>
    IN  IF ~useTap
        THEN [map |-> map, step |-> "none", inner |-> "none",
              status |-> internalStatus, calls |-> internal]
        ELSE IF RifDispatch(getStatus) = "create"
        THEN LET r == vpp_create_router_interface(map, attr_list,
                          [ret |-> 0, res |-> "1"], 0, "vrf_1", retAdd, 0, TRUE)
             IN  [map |-> r.map, step |-> "create", inner |-> r.status,
                  status |-> internalStatus, calls |-> r.calls \o internal]
        ELSE IF object_id \notin DOMAIN RouterInterfaces
        THEN [map |-> map, step |-> "update", inner |-> "SAI_STATUS_FAILURE",
              status |-> internalStatus, calls |-> internal]
        ELSE LET r == vpp_update_router_interface(object_id, attr_list, TRUE)
             IN  [map |-> map, step |-> "update", inner |-> r.status,
                  status |-> internalStatus, calls |-> r.calls \o internal]

CreateRouterif ==
    \E object_id \in RifObjectIds, attr_list \in DispatchAttrLists,
       internalStatus \in InternalStatuses, retAdd \in RetCodes :
      \E getStatus \in GetTypeStatuses(object_id) :
        \E r \in {createRouterif(vrf_objMap, m_useTapDevice, object_id,
                                 attr_list, getStatus, internalStatus, retAdd)} :
            /\ vrf_objMap' = r.map
            /\ lastOp' = [op |-> "createRouterif", object_id |-> object_id,
                          attr_list |-> attr_list, getStatus |-> getStatus,
                          internalStatus |-> internalStatus,
                          step |-> r.step, inner |-> r.inner,
                          status |-> r.status, calls |-> r.calls]
            /\ UNCHANGED <<lpbVars, lpbHist, addrVars, cfgVars, evVars,
                           allocTrace>>

\* removeRouterif(objectId); internalStatus is what remove_internal returns
RemoveRouterif ==
    \E objectId \in DOMAIN RouterInterfaces,
       internalStatus \in {"SAI_STATUS_SUCCESS", "SAI_STATUS_FAILURE"} :
        \E r \in {IF m_useTapDevice
                  THEN vpp_remove_router_interface(objectId)
                  ELSE [path |-> "skipped", status |-> "none", calls |-> <<>>]} :
            /\ lastOp' = [op |-> "removeRouterif", rif_id |-> objectId,
                          path |-> r.path, inner |-> r.status,
                          status |-> internalStatus,
                          calls |-> r.calls \o
                                    << [fn |-> "remove_internal",
                                        object_type |-> "SAI_OBJECT_TYPE_ROUTER_INTERFACE",
                                        sid |-> objectId,
                                        ret |-> internalStatus] >>]
            /\ UNCHANGED <<vrfVars, lpbVars, lpbHist, addrVars, cfgVars,
                           evVars, allocTrace>>

NextDispatch == CreateRouterif \/ RemoveRouterif \/ RemoveVrf

SpecDispatch == InitCfg /\ [][NextDispatch]_vars

(***************************************************************************)
(* Port and interface setters.                                             *)
(***************************************************************************)
\* the objects the setters are called for
SetterObjects == {"port_Ethernet0", "port_Ethernet4", "lag_1"}
SetterVlans == {0, 10}
Mtus == {1500, 9100}

\* a variant that programs the MTU whether or not L3 forwarding is active
vpp_set_port_mtu_Unguarded(object_id, vlan_id, mtu, nbrActive) ==
    IF vpp_get_hwif_name(object_id, vlan_id) = "" THEN <<>>
    ELSE << [fn |-> "hw_interface_set_mtu",
             hw_ifname |-> vpp_get_hwif_name(object_id, vlan_id),
             mtu |-> mtu] >>

\* vpp_set_port_mtu: the dataplane calls it issues
vpp_set_port_mtu(object_id, vlan_id, mtu, nbrActive) ==
    IF ~nbrActive \/ vpp_get_hwif_name(object_id, vlan_id) = "" THEN <<>>
    ELSE << [fn |-> "hw_interface_set_mtu",
             hw_ifname |-> vpp_get_hwif_name(object_id, vlan_id),
             mtu |-> mtu] >>

\* the attribute lists of a port update that carry no ACL binding
PortAttrLists ==
    { a @@ m :
        a \in { NoAttrs, [SAI_PORT_ATTR_ADMIN_STATE |-> TRUE],
                [SAI_PORT_ATTR_ADMIN_STATE |-> FALSE] },
        m \in { NoAttrs, [SAI_PORT_ATTR_MTU |-> 9100] } }

\* UpdatePort(object_id, attr_count, attr_list): the dataplane calls it issues
UpdatePort(object_id, attr_list, nbrActive) ==
    IF ~nbrActive THEN <<>>
    ELSE (IF Passed(attr_list, "SAI_PORT_ATTR_ADMIN_STATE")
          THEN vpp_set_interface_state(object_id, 0,
                   attr_list.SAI_PORT_ATTR_ADMIN_STATE, nbrActive)
          ELSE <<>>)
         \o
         (IF Passed(attr_list, "SAI_PORT_ATTR_MTU")
          THEN vpp_set_port_mtu(object_id, 0, attr_list.SAI_PORT_ATTR_MTU,
                                nbrActive)
          ELSE <<>>)

SetterDone(op, object_id, vlan_id, value, nbrActive, calls) ==
    /\ lastOp' = [op |-> op, object_id |-> object_id, vlan_id |-> vlan_id,
                  value |-> value, nbrActive |-> nbrActive,
                  status |-> "SAI_STATUS_SUCCESS", calls |-> calls]
    /\ UNCHANGED <<vrfVars, lpbVars, lpbHist, addrVars, cfgVars, evVars,
                   allocTrace>>

VppSetInterfaceState ==
    \E object_id \in SetterObjects, vlan_id \in SetterVlans,
       is_up \in BOOLEAN, nbrActive \in BOOLEAN :
        SetterDone("vpp_set_interface_state", object_id, vlan_id, is_up,
                   nbrActive,
                   vpp_set_interface_state(object_id, vlan_id, is_up, nbrActive))

VppSetPortMtu ==
    \E object_id \in SetterObjects, vlan_id \in SetterVlans,
       mtu \in Mtus, nbrActive \in BOOLEAN :
        SetterDone("vpp_set_port_mtu", object_id, vlan_id, mtu, nbrActive,
                   vpp_set_port_mtu(object_id, vlan_id, mtu, nbrActive))

VppSetInterfaceMtu ==
    \E object_id \in SetterObjects, vlan_id \in SetterVlans,
       mtu \in Mtus, type \in {AF_INET, AF_INET6}, nbrActive \in BOOLEAN :
        SetterDone("vpp_set_interface_mtu", object_id, vlan_id,
                   [mtu |-> mtu, type |-> type], nbrActive,
                   vpp_set_interface_mtu(object_id, vlan_id, mtu, type,
                                         nbrActive))

UpdatePortStep ==
    \E object_id \in SetterObjects, attr_list \in PortAttrLists,
       nbrActive \in BOOLEAN :
        SetterDone("UpdatePort", object_id, 0, attr_list, nbrActive,
                   UpdatePort(object_id, attr_list, nbrActive))

NextPort ==
    \/ VppSetInterfaceState
    \/ VppSetPortMtu
    \/ VppSetInterfaceMtu
    \/ UpdatePortStep

SpecPort == Init /\ [][NextPort]_vars

(***************************************************************************)
(* Event Bridge: the thread running vppProcessEvents.                      *)
(***************************************************************************)
\* hwif_to_tap_name: the host interface of a dataplane name
hwif_to_tap_name(hwif_name) == "Ethernet" \o Substr(hwif_name, 4)

SAI_NULL_OBJECT_ID == "oid:0x0"

\* getPortIdFromIfName: the port that owns a host interface
getPortIdFromIfName(tap) ==
    IF \E p \in DOMAIN TapNames : TapNames[p] = tap
    THEN CHOOSE p \in DOMAIN TapNames : TapNames[p] = tap
    ELSE SAI_NULL_OBJECT_ID

\* what the dataplane posts: link events of a mapped and of an unmapped
\* interface, and an event of another type
EventKinds ==
    { [type |-> "VPP_INTF_LINK_STATUS", hwif_name |-> "bobm0", link_up |-> TRUE],
      [type |-> "VPP_INTF_LINK_STATUS", hwif_name |-> "bobm0", link_up |-> FALSE],
      [type |-> "VPP_INTF_LINK_STATUS", hwif_name |-> "bobm4", link_up |-> TRUE],
      [type |-> "VPP_BFD_STATE_CHANGE", hwif_name |-> "", link_up |-> FALSE] }

\* a variant that reports every link event as up
asyncIntfStateUpdate_AlwaysUp(hwif_name, link_up) ==
    IF getPortIdFromIfName(hwif_to_tap_name(hwif_name)) = SAI_NULL_OBJECT_ID
    THEN <<>>
    ELSE << [port_id |-> getPortIdFromIfName(hwif_to_tap_name(hwif_name)),
             state |-> "SAI_PORT_OPER_STATUS_UP"] >>

\* asyncIntfStateUpdate(hwif_name, link_up): the notifications it sends
asyncIntfStateUpdate(hwif_name, link_up) ==
    IF getPortIdFromIfName(hwif_to_tap_name(hwif_name)) = SAI_NULL_OBJECT_ID
    THEN <<>>
    ELSE << [port_id |-> getPortIdFromIfName(hwif_to_tap_name(hwif_name)),
             state |-> IF link_up THEN "SAI_PORT_OPER_STATUS_UP"
                       ELSE "SAI_PORT_OPER_STATUS_DOWN"] >>

\* vpp_dp_initialize: starts the thread
VppDpInitialize ==
    /\ evPc = "unstarted"
    /\ evPc' = "loop"
    /\ lastOp' = [op |-> "vpp_dp_initialize", status |-> "SAI_STATUS_SUCCESS",
                  calls |-> << [fn |-> "init_vpp_client"] >>]
    /\ UNCHANGED <<vrfVars, lpbVars, lpbHist, addrVars, cfgVars, allocTrace,
                   m_run_vpp_events_thread, evQueue, evp, notifications,
                   evPosted>>

\* a variant of the outer loop that returns at its first test
EvLoopTest_Exits ==
    /\ evPc = "loop"
    /\ evPc' = "exited"
    /\ UNCHANGED <<vrfVars, lpbVars, lpbHist, addrVars, cfgVars, allocTrace,
                   lastOp, m_run_vpp_events_thread, evQueue, evp,
                   notifications, evPosted>>

\* while(m_run_vpp_events_thread), then nanosleep and vpp_sync_for_events
EvLoopTest ==
    /\ evPc = "loop"
    /\ evPc' = IF m_run_vpp_events_thread THEN "drain" ELSE "exited"
    /\ UNCHANGED <<vrfVars, lpbVars, lpbHist, addrVars, cfgVars, allocTrace,
                   lastOp, m_run_vpp_events_thread, evQueue, evp,
                   notifications, evPosted>>

\* while ((evp = vpp_ev_dequeue()))
EvDequeue ==
    /\ evPc = "drain"
    /\ IF evQueue = <<>>
       THEN evPc' = "loop" /\ evp' = nullptr /\ UNCHANGED evQueue
       ELSE evPc' = "handle" /\ evp' = Head(evQueue)
            /\ evQueue' = Tail(evQueue)
    /\ UNCHANGED <<vrfVars, lpbVars, lpbHist, addrVars, cfgVars, allocTrace,
                   lastOp, m_run_vpp_events_thread, notifications, evPosted>>

\* a variant of the loop body that also empties the Prefix State Store
EvHandle_ForgetsPrefixes ==
    /\ evPc = "handle"
    /\ notifications' =
          IF evp.type = "VPP_INTF_LINK_STATUS"
          THEN notifications \o
               [i \in DOMAIN asyncIntfStateUpdate(evp.hwif_name, evp.link_up) |->
                  asyncIntfStateUpdate(evp.hwif_name, evp.link_up)[i]
                  @@ [ev |-> evp.id]]
          ELSE notifications
    /\ evPc' = "drain"
    /\ m_intf_prefix_map' = EmptyMap
    /\ UNCHANGED <<vrfVars, lpbVars, lpbHist, cfgVars, allocTrace,
                   lastOp, m_run_vpp_events_thread, evQueue, evp, evPosted>>

\* the body of the inner loop: notify for a link event, free the event
EvHandle ==
    /\ evPc = "handle"
    /\ notifications' =
          IF evp.type = "VPP_INTF_LINK_STATUS"
          THEN notifications \o
               [i \in DOMAIN asyncIntfStateUpdate(evp.hwif_name, evp.link_up) |->
                  asyncIntfStateUpdate(evp.hwif_name, evp.link_up)[i]
                  @@ [ev |-> evp.id]]
          ELSE notifications
    /\ evPc' = "drain"
    /\ UNCHANGED <<vrfVars, lpbVars, lpbHist, addrVars, cfgVars, allocTrace,
                   lastOp, m_run_vpp_events_thread, evQueue, evp, evPosted>>

vppProcessEvents == EvLoopTest \/ EvDequeue \/ EvHandle

\* the dataplane client, connected by vpp_dp_initialize, posts an event
DataplaneEvent ==
    \E e \in EventKinds :
        /\ evPc # "unstarted"
        /\ evPosted < MaxEvents
        /\ evPosted' = evPosted + 1
        /\ evQueue' = Append(evQueue, e @@ [id |-> evPosted + 1])
        /\ UNCHANGED <<vrfVars, lpbVars, lpbHist, addrVars, cfgVars,
                       allocTrace, lastOp, m_run_vpp_events_thread, evPc,
                       evp, notifications>>

\* the engine shuts down: the run flag is cleared
StopEventsThread ==
    /\ m_run_vpp_events_thread
    /\ evPc # "unstarted"
    /\ m_run_vpp_events_thread' = FALSE
    /\ UNCHANGED <<vrfVars, lpbVars, lpbHist, addrVars, cfgVars, allocTrace,
                   lastOp, evPc, evQueue, evp, notifications, evPosted>>

NextEv ==
    \/ VppDpInitialize
    \/ vppProcessEvents
    \/ DataplaneEvent
    \/ StopEventsThread

SpecEv == Init /\ [][NextEv]_vars

\* the thread is scheduled fairly
SpecEvFair == SpecEv /\ WF_vars(vppProcessEvents)

\* the synchronous call path next to the thread: one request of each
\* subsystem, each run to completion
SyncVrfAndRouterInterface ==
    \/ \E r \in {vpp_create_router_interface(vrf_objMap,
                    [SAI_ROUTER_INTERFACE_ATTR_TYPE |-> "SAI_ROUTER_INTERFACE_TYPE_PORT",
                     SAI_ROUTER_INTERFACE_ATTR_PORT_ID |-> "port_Ethernet0",
                     SAI_ROUTER_INTERFACE_ATTR_VIRTUAL_ROUTER_ID |-> 1],
                    [ret |-> 0, res |-> "1"], 0, "vrf_1", 0, 0, TRUE)} :
          /\ vrf_objMap' = r.map
          /\ lastOp' = [op |-> "vpp_create_router_interface", path |-> r.path,
                        status |-> r.status, calls |-> r.calls]
    \/ \E r \in {vpp_del_ip_vrf(vrf_objMap, 1)} :
          /\ vrf_objMap' = r.map
          /\ lastOp' = [op |-> "vpp_del_ip_vrf", objectId |-> 1,
                        path |-> r.path, status |-> "SAI_STATUS_SUCCESS",
                        calls |-> r.calls]

SyncVrfStep ==
    /\ SyncVrfAndRouterInterface
    /\ UNCHANGED <<lpbVars, lpbHist, addrVars, cfgVars, evVars, allocTrace>>

SyncLoopbackStep ==
    \E route \in {r \in Routes : r.addr_family = SAI_IP_ADDR_FAMILY_IPV4} :
        /\ IF RouteExists(extractDestinationIP(route))
           THEN process_interface_loopback_del(route)
           ELSE process_interface_loopback_add(route, "Loopback0", 0, 0, 0, 0)
        /\ UNCHANGED <<vrfVars, addrVars, cfgVars, evVars, allocTrace>>

SyncAddressStep ==
    \E ip_prefix \in {p \in IpPrefixes : p.addr_family = SAI_IP_ADDR_FAMILY_IPV4},
       is_add \in BOOLEAN :
        \E r \in {vpp_add_del_intf_ip_addr(m_intf_prefix_map, ip_prefix,
                        "rif_port", is_add, "10.0.0.1/24", 0)} :
            /\ m_intf_prefix_map' = r.map
            /\ lastOp' = [op |-> "vpp_add_del_intf_ip_addr",
                          ip_prefix |-> ip_prefix, rif_id |-> "rif_port",
                          is_add |-> is_add, path |-> r.path, key |-> r.key,
                          status |-> r.status, calls |-> r.calls]
            /\ UNCHANGED <<vrfVars, lpbVars, lpbHist, cfgVars, evVars,
                           allocTrace>>

NextEvSync ==
    \/ NextEv
    \/ SyncVrfStep
    \/ SyncLoopbackStep
    \/ SyncAddressStep

SpecEvSync == Init /\ [][NextEvSync]_vars

(***************************************************************************)
(* Properties of the dual-stack loopback coordinator (SpecLpb).            *)
(***************************************************************************)
DestIPs == {extractDestinationIP(r) : r \in Routes}

IsLoopbackName(n) == StrFind(n, "Loopback") # npos

\* d1 and d2 are two destinations recorded with the same dataplane loopback
\* name and the same loopback host name
SharesLoopback(d1, d2) ==
    /\ d1 # d2
    /\ d1 \in DOMAIN lpbIpToIfMap /\ d2 \in DOMAIN lpbIpToIfMap
    /\ d1 \in DOMAIN lpbIpToHostIfMap /\ d2 \in DOMAIN lpbIpToHostIfMap
    /\ lpbIpToIfMap[d1] = lpbIpToIfMap[d2]
    /\ lpbIpToHostIfMap[d1] = lpbIpToHostIfMap[d2]
    /\ IsLoopbackName(lpbIpToHostIfMap[d1])

\* the step is process_interface_loopback remove of destination d
IsLpbDelOf(d) == lastOp'.op = "lpb_del" /\ lastOp'.route.addr = d

\* the step is process_interface_loopback add of destination d resolving to h
IsLpbAddOf(d, h) ==
    lastOp'.op = "lpb_add" /\ lastOp'.route.addr = d /\ lastOp'.host = h

\* C2: once a first destination has created a dataplane loopback for a host
\* loopback device, adding a second destination that resolves to the same
\* device allocates no instance, creates no dataplane loopback and leaves
\* both destinations mapped to the same dataplane loopback name.
C2_SecondDestinationJoins ==
    [][\A d1 \in DestIPs, d2 \in DestIPs, h \in LoopbackHosts :
        ( /\ d1 # d2
          /\ <<d1, h>> \in lpbAdded
          /\ d1 \in DOMAIN lpbIpToIfMap
          /\ lpbIpToIfMap[d1] \in DOMAIN lpbCreated
          /\ lpbCreated[lpbIpToIfMap[d1]].live
          /\ lpbCreated[lpbIpToIfMap[d1]].host = h
          /\ IsLpbAddOf(d2, h) )
        => /\ currentMaxInstance' = currentMaxInstance
           /\ availableInstances' = availableInstances
           /\ CallsOf(lastOp'.calls, "create_loopback_instance") = {}
           /\ d1 \in DOMAIN lpbIpToIfMap' /\ d2 \in DOMAIN lpbIpToIfMap'
           /\ lpbIpToIfMap'[d1] = lpbIpToIfMap[d1]
           /\ lpbIpToIfMap'[d2] = lpbIpToIfMap[d1]]_vars

C5_AllRemovedAllReleased ==
    \A h \in LoopbackHosts :
        (\A a \in lpbAdded : a[2] # h)
        => \A n \in DOMAIN lpbCreated :
              lpbCreated[n].host = h
              => /\ ~lpbCreated[n].live
                 /\ n \notin DOMAIN lpbInstMap
                 /\ lpbCreated[n].instance \in availableInstances

\* C6: no two names of lpbInstMap hold the same instance number, and no
\* instance number held in lpbInstMap is in the free set.
C6_InstancesUniqueWhileAllocated ==
    /\ \A n1 \in DOMAIN lpbInstMap, n2 \in DOMAIN lpbInstMap :
            n1 # n2 => lpbInstMap[n1] # lpbInstMap[n2]
    /\ \A n \in DOMAIN lpbInstMap : lpbInstMap[n] \notin availableInstances

(***************************************************************************)
(* Properties of the allocator (SpecAlloc).                                *)
(***************************************************************************)
\* C7: getNextLoopbackInstance returns and removes the smallest released
\* number when there is one, and otherwise returns the counter and advances
\* it; after allocating 0, 1, 2 and releasing 1 the next two allocations
\* return 1 and then 3.
C7_LowestReleasedFirst ==
    /\ [][lastOp'.op = "alloc" =>
            IF availableInstances # {}
            THEN /\ lastOp'.ret \in availableInstances
                 /\ \A j \in availableInstances : lastOp'.ret <= j
                 /\ availableInstances' = availableInstances \ {lastOp'.ret}
                 /\ currentMaxInstance' = currentMaxInstance
            ELSE /\ lastOp'.ret = currentMaxInstance
                 /\ currentMaxInstance' = currentMaxInstance + 1
                 /\ availableInstances' = {}]_vars
    /\ [](( /\ Len(allocTrace) >= 6
            /\ SubSeq(allocTrace, 1, 4) =
                 << <<"alloc", 0>>, <<"alloc", 1>>, <<"alloc", 2>>, <<"release", 1>> >>
            /\ allocTrace[5][1] = "alloc" /\ allocTrace[6][1] = "alloc" )
           => (allocTrace[5][2] = 1 /\ allocTrace[6][2] = 3))

\* 0, 1, 2 allocated, 1 released, then 1 and 3 allocated
C7_Witness ==
    allocTrace = << <<"alloc", 0>>, <<"alloc", 1>>, <<"alloc", 2>>,
                    <<"release", 1>>, <<"alloc", 1>>, <<"alloc", 3>> >>

(***************************************************************************)
(* Properties of the VRF lifecycle manager (SpecVrf).                      *)
(***************************************************************************)
\* C8: once vpp_add_ip_vrf has registered a descriptor for an object id, a
\* later vpp_add_ip_vrf for that id, with the same or another numeric id,
\* issues no dataplane call, leaves vrf_objMap unchanged, and vpp_get_ip_vrf
\* returns the same descriptor as before.
C8_AcquireIsIdempotent ==
    [][\A o \in VrfObjIds :
        ( /\ o \in DOMAIN vrf_objMap
          /\ lastOp'.op = "vpp_add_ip_vrf"
          /\ lastOp'.objectId = o )
        => /\ CallsOf(lastOp'.calls, "ip_vrf_add") = {}
           /\ CallsOf(lastOp'.calls, "vpp_ip_flow_hash_set") = {}
           /\ vrf_objMap' = vrf_objMap
           /\ vpp_get_ip_vrf(vrf_objMap', o) = vpp_get_ip_vrf(vrf_objMap, o)
           /\ vpp_get_ip_vrf(vrf_objMap', o) # nullptr]_vars

\* an acquire with another numeric id has found the descriptor registered
C8_Witness ==
    /\ lastOp.op = "vpp_add_ip_vrf"
    /\ lastOp.path = "exists"
    /\ lastOp.calls = <<>>
    /\ lastOp.vrf_id # vrf_objMap[lastOp.objectId].m_vrf_id

\* C9: ip_vrf_add and ip_vrf_del are never invoked with numeric VRF id 0.
C9_DefaultTableNeverCreatedOrDestroyed ==
    \A i \in 1..Len(lastOp.calls) :
        lastOp.calls[i].fn \in {"ip_vrf_add", "ip_vrf_del"}
        => lastOp.calls[i].vrf_id # 0

\* C10: when vpp_add_ip_vrf is called for an unregistered object id with a
\* non-zero numeric id and ip_vrf_add returns non-zero, no descriptor is
\* registered and no flow hash is programmed; a later acquire for the same
\* object id calls ip_vrf_add again.
C10_FailedCreateRegistersNothing ==
    /\ [][\A o \in VrfObjIds :
            ( /\ o \notin DOMAIN vrf_objMap
              /\ lastOp'.op = "vpp_add_ip_vrf"
              /\ lastOp'.objectId = o
              /\ lastOp'.vrf_id # 0
              /\ \E i \in CallsOf(lastOp'.calls, "ip_vrf_add") :
                    lastOp'.calls[i].ret # 0 )
            => /\ o \notin DOMAIN vrf_objMap'
               /\ vrf_objMap' = vrf_objMap
               /\ CallsOf(lastOp'.calls, "vpp_ip_flow_hash_set") = {}]_vars
    /\ [][( /\ lastOp.op = "vpp_add_ip_vrf"
            /\ lastOp.path = "create_failed"
            /\ lastOp'.op = "vpp_add_ip_vrf"
            /\ lastOp'.objectId = lastOp.objectId
            /\ lastOp'.vrf_id # 0 )
           => CallsOf(lastOp'.calls, "ip_vrf_add") # {}]_vars

\* an acquire whose dataplane create failed has left the id unregistered
C10_Witness ==
    /\ lastOp.op = "vpp_add_ip_vrf"
    /\ lastOp.path = "create_failed"
    /\ lastOp.vrf_id # 0
    /\ \E i \in CallsOf(lastOp.calls, "ip_vrf_add") : lastOp.calls[i].ret # 0
    /\ lastOp.objectId \notin DOMAIN vrf_objMap

\* the step runs vpp_del_ip_vrf for object id o, directly or from removeVrf
IsVrfReleaseOf(o) ==
    /\ lastOp'.objectId = o
    /\ \/ lastOp'.op = "vpp_del_ip_vrf"
       \/ lastOp'.op = "removeVrf" /\ m_useTapDevice

\* C11: vpp_del_ip_vrf on a registered object id issues exactly one
\* ip_vrf_del carrying the stored numeric id, name and family and erases the
\* entry, so that vpp_get_ip_vrf returns null and the next acquire does not
\* find a descriptor (it calls ip_vrf_add for a non-zero id and registers
\* again on success); on an unregistered object id it issues no dataplane
\* call and leaves vrf_objMap unchanged.
C11_ReleaseDeletesOnceAndErases ==
    /\ [][\A o \in VrfObjIds :
            (lastOp'.op \in {"vpp_del_ip_vrf", "removeVrf"} /\ IsVrfReleaseOf(o))
            => IF o \in DOMAIN vrf_objMap
               THEN /\ Cardinality(CallsOf(lastOp'.calls, "ip_vrf_del")) = 1
                    /\ \A i \in CallsOf(lastOp'.calls, "ip_vrf_del") :
                          /\ lastOp'.calls[i].vrf_id = vrf_objMap[o].m_vrf_id
                          /\ lastOp'.calls[i].vrf_name = vrf_objMap[o].m_vrf_name
                          /\ lastOp'.calls[i].is_ipv6 = vrf_objMap[o].m_is_ipv6
                    /\ vrf_objMap' = MapErase(vrf_objMap, o)
                    /\ vpp_get_ip_vrf(vrf_objMap', o) = nullptr
               ELSE /\ CallsOf(lastOp'.calls, "ip_vrf_del") = {}
                    /\ CallsOf(lastOp'.calls, "ip_vrf_add") = {}
                    /\ CallsOf(lastOp'.calls, "vpp_ip_flow_hash_set") = {}
                    /\ vrf_objMap' = vrf_objMap]_vars
    /\ [][( /\ lastOp.op = "vpp_del_ip_vrf"
            /\ lastOp.path = "deleted"
            /\ lastOp'.op = "vpp_add_ip_vrf"
            /\ lastOp'.objectId = lastOp.objectId )
           => /\ lastOp'.path # "exists"
              /\ lastOp'.vrf_id # 0 => CallsOf(lastOp'.calls, "ip_vrf_add") # {}
              /\ lastOp'.path = "registered"
                 => vpp_get_ip_vrf(vrf_objMap', lastOp'.objectId) # nullptr]_vars

\* a release has deleted the table of a descriptor with a non-zero id
C11_Witness ==
    /\ lastOp.op = "vpp_del_ip_vrf"
    /\ lastOp.path = "deleted"
    /\ Cardinality(CallsOf(lastOp.calls, "ip_vrf_del")) = 1
    /\ \E i \in CallsOf(lastOp.calls, "ip_vrf_del") : lastOp.calls[i].vrf_id # 0
    /\ lastOp.objectId \notin DOMAIN vrf_objMap

(***************************************************************************)
(* Properties of the interface address programmer (SpecAddr).              *)
(***************************************************************************)
DataplaneAddrCalls(calls, is_add) ==
    {i \in CallsOf(calls, "interface_ip_address_add_del") :
        calls[i].is_add = is_add}

\* C1: when vpp_add_del_intf_ip_addr adds a (router interface, prefix) whose
\* live address resolves and the next call removes the same (router
\* interface, prefix), both calls build the same composite key, the store
\* has no entry for that key afterwards, the add issued exactly one
\* dataplane address add and the remove exactly one dataplane address delete.
C1_SymmetricAddRemove ==
    [][( /\ lastOp.op = "vpp_add_del_intf_ip_addr"
         /\ lastOp.is_add
         /\ lastOp.path = "programmed"
         /\ lastOp'.op = "vpp_add_del_intf_ip_addr"
         /\ ~lastOp'.is_add
         /\ lastOp'.rif_id = lastOp.rif_id
         /\ lastOp'.ip_prefix = lastOp.ip_prefix )
        => /\ lastOp'.key = lastOp.key
           /\ lastOp'.key \notin DOMAIN m_intf_prefix_map'
           /\ Cardinality(DataplaneAddrCalls(lastOp.calls, TRUE)) = 1
           /\ DataplaneAddrCalls(lastOp.calls, FALSE) = {}
           /\ Cardinality(DataplaneAddrCalls(lastOp'.calls, FALSE)) = 1
           /\ DataplaneAddrCalls(lastOp'.calls, TRUE) = {}]_vars

\* a remove has found the entry an add stored for another live address than
\* the one requested, erased it and issued the dataplane delete
C1_Witness ==
    /\ lastOp.op = "vpp_add_del_intf_ip_addr"
    /\ ~lastOp.is_add
    /\ lastOp.path = "removed"
    /\ lastOp.key \notin DOMAIN m_intf_prefix_map
    /\ Cardinality(DataplaneAddrCalls(lastOp.calls, FALSE)) = 1
    /\ \E i \in DataplaneAddrCalls(lastOp.calls, FALSE) :
          lastOp.calls[i].prefix_addr # lastOp.ip_prefix.addr

AddrOps == {"vpp_add_del_intf_ip_addr", "vpp_add_del_intf_ip_addr_norif"}

\* the operation op is an address call that got as far as a host device:
\* the router interface led to a tap device, or the reverse lookup (add) or
\* the store (remove) named one
ReachedDevice(op) ==
    /\ op.op \in AddrOps
    /\ op.path \notin {"no_type", "no_port", "vlan", "not_port", "rif_type",
                       "no_tap", "no_interface"}

\* the resolved-prefix text an address call works on: what the live-address
\* query printed (add) or what store holds under the key (remove)
ResolvedText(op, store) ==
    IF op.is_add THEN op.res
    ELSE IF op.key \notin DOMAIN store THEN ""
    ELSE IF op.op = "vpp_add_del_intf_ip_addr" THEN store[op.key]
    ELSE vpp_deserialize_intf_data(store[op.key]).k2

\* C12: an address add (either variant) that reaches a host device on
\* which the live-address query prints nothing returns success, leaves the
\* store unmodified and issues no dataplane address call.
C12_NoLiveAddressIsNoOp ==
    [][( /\ lastOp'.op \in AddrOps
         /\ lastOp'.is_add
         /\ ReachedDevice(lastOp')
         /\ lastOp'.res = "" )
        => /\ lastOp'.status = "SAI_STATUS_SUCCESS"
           /\ m_intf_prefix_map' = m_intf_prefix_map
           /\ CallsOf(lastOp'.calls, "interface_ip_address_add_del") = {}]_vars

\* a no-interface add has found the device and no live address on it
C12_Witness ==
    /\ lastOp.op = "vpp_add_del_intf_ip_addr_norif"
    /\ lastOp.is_add
    /\ lastOp.found = "Ethernet0.10"
    /\ lastOp.res = ""
    /\ lastOp.status = "SAI_STATUS_SUCCESS"
    /\ \E i \in CallsOf(lastOp.calls, "vpp_get_intf_ip_address") :
          lastOp.calls[i].dev = "Ethernet0.10"

\* C13: vpp_add_del_intf_ip_addr_norif add, when the reverse lookup finds
\* no host interface owning the prefix, returns success, issues no dataplane
\* call and leaves the store unchanged.
C13_ReverseLookupMissIsSuccess ==
    [][( /\ lastOp'.op = "vpp_add_del_intf_ip_addr_norif"
         /\ lastOp'.is_add
         /\ lastOp'.found = "" )
        => /\ lastOp'.status = "SAI_STATUS_SUCCESS"
           /\ CallsOf(lastOp'.calls, "interface_ip_address_add_del") = {}
           /\ m_intf_prefix_map' = m_intf_prefix_map]_vars

\* C14: after an address add (either variant) that returns failure because
\* interface_ip_address_add_del returned non-zero, the store holds no entry
\* for the composite key that was not there before the call.
C14_NoEntryAfterFailedAdd ==
    [][( /\ lastOp'.op \in AddrOps
         /\ lastOp'.is_add
         /\ lastOp'.status = "SAI_STATUS_FAILURE"
         /\ \E i \in CallsOf(lastOp'.calls, "interface_ip_address_add_del") :
               lastOp'.calls[i].ret # 0 )
        => ( lastOp'.key \in DOMAIN m_intf_prefix_map'
             => lastOp'.key \in DOMAIN m_intf_prefix_map )]_vars

\* the prefix text the store records under key for an address call of op's
\* variant ("" when it records none)
RecordedPrefix(op, store) ==
    IF op.key \notin DOMAIN store THEN ""
    ELSE IF op.op = "vpp_add_del_intf_ip_addr" THEN store[op.key]
    ELSE vpp_deserialize_intf_data(store[op.key]).k2

\* C15, for an address pushed by the call before: when the last call added
\* an address to the dataplane with return 0 and the next call is another
\* address add (which deletes nothing), the store still records the pushed
\* address under the key of the call that pushed it.
C15_PushedAddressStaysRecorded ==
    [][\A i \in 1..Len(lastOp.calls) :
        ( /\ lastOp.op \in AddrOps
          /\ lastOp.calls[i].fn = "interface_ip_address_add_del"
          /\ lastOp.calls[i].is_add
          /\ lastOp.calls[i].ret = 0
          /\ lastOp'.op \in AddrOps
          /\ lastOp'.is_add )
        => RecordedPrefix(lastOp, m_intf_prefix_map') =
              lastOp.calls[i].prefix_addr \o "/" \o
              ToString(lastOp.calls[i].prefix_len)]_vars

\* C16: an address remove (either variant) for a key without a store entry
\* returns success, issues no dataplane call and no OS query and leaves the
\* store unchanged; a remove that follows a remove of the same key is such
\* a no-op.
C16_RemoveWithoutEntryIsNoOp ==
    /\ [][( /\ lastOp'.op \in AddrOps
            /\ ~lastOp'.is_add
            /\ ReachedDevice(lastOp')
            /\ lastOp'.key \notin DOMAIN m_intf_prefix_map )
           => /\ lastOp'.status = "SAI_STATUS_SUCCESS"
              /\ lastOp'.calls = <<>>
              /\ m_intf_prefix_map' = m_intf_prefix_map]_vars
    /\ [][( /\ lastOp.op \in AddrOps /\ lastOp'.op = lastOp.op
            /\ ~lastOp.is_add /\ ~lastOp'.is_add
            /\ ReachedDevice(lastOp) /\ ReachedDevice(lastOp')
            /\ lastOp'.key = lastOp.key )
           => /\ lastOp'.path = "no_entry"
              /\ lastOp'.status = "SAI_STATUS_SUCCESS"
              /\ lastOp'.calls = <<>>
              /\ m_intf_prefix_map' = m_intf_prefix_map]_vars

\* a remove has found no entry for its key
C16_Witness ==
    /\ lastOp.op \in AddrOps
    /\ ~lastOp.is_add
    /\ lastOp.path = "no_entry"
    /\ lastOp.key # ""
    /\ lastOp.key \notin DOMAIN m_intf_prefix_map
    /\ lastOp.status = "SAI_STATUS_SUCCESS"

\* C17: when an address call (either variant) has reached
\* interface_ip_address_add_del, the status it returns is failure if and
\* only if that call returned non-zero.
C17_StatusFollowsDataplane ==
    lastOp.op \in AddrOps =>
        \A i \in CallsOf(lastOp.calls, "interface_ip_address_add_del") :
            /\ lastOp.status \in {"SAI_STATUS_SUCCESS", "SAI_STATUS_FAILURE"}
            /\ (lastOp.status = "SAI_STATUS_FAILURE") <=> (lastOp.calls[i].ret # 0)

\* a no-interface remove has failed on the dataplane delete
C17_Witness ==
    /\ lastOp.op = "vpp_add_del_intf_ip_addr_norif"
    /\ ~lastOp.is_add
    /\ lastOp.status = "SAI_STATUS_FAILURE"
    /\ \E i \in CallsOf(lastOp.calls, "interface_ip_address_add_del") :
          lastOp.calls[i].ret # 0

\* the address part of a prefix text
AddrText(str) ==
    IF StrFind(str, "/") = npos THEN str ELSE SubstrN(str, 0, StrFind(str, "/"))

\* C20: when the address of the resolved prefix belongs to neither family,
\* an address call (either variant) ends with an outcome that is neither the
\* success nor the failure status, and interface_ip_address_add_del is not
\* called.
C20_UnknownFamilyIsFatal ==
    [][LET text == ResolvedText(lastOp', m_intf_prefix_map)
       IN  ( /\ lastOp'.op \in AddrOps
             /\ ReachedDevice(lastOp')
             /\ text # ""
             /\ StrFind(AddrText(text), ":") = npos
             /\ StrFind(AddrText(text), ".") = npos )
           => /\ lastOp'.status \notin {"SAI_STATUS_SUCCESS", "SAI_STATUS_FAILURE"}
              /\ CallsOf(lastOp'.calls, "interface_ip_address_add_del") = {}]_vars

\* an add has resolved a prefix of neither family and thrown
C20_Witness ==
    /\ lastOp.op \in AddrOps
    /\ lastOp.is_add
    /\ lastOp.res = "-/0"
    /\ lastOp.status = "std::logic_error"
    /\ CallsOf(lastOp.calls, "interface_ip_address_add_del") = {}

(***************************************************************************)
(* Properties of the router-interface state machine (SpecRif).             *)
(***************************************************************************)
RifOps ==
    {"vpp_create_router_interface", "vpp_update_router_interface",
     "vpp_remove_router_interface"}

\* the attributes an operation works from: the list passed to create, the
\* stored attributes of the router interface otherwise
AttrsOf(op) ==
    IF op.op = "vpp_create_router_interface" THEN op.attr_list
    ELSE RouterInterfaces[op.rif_id]

\* the operation is about a router interface of a known type whose bound
\* port object is a VLAN
IsVlanBound(op) ==
    /\ op.op \in RifOps \cup {"vpp_add_del_intf_ip_addr"}
    /\ "SAI_ROUTER_INTERFACE_ATTR_TYPE" \in DOMAIN AttrsOf(op)
    /\ "SAI_ROUTER_INTERFACE_ATTR_PORT_ID" \in DOMAIN AttrsOf(op)
    /\ SubstrN(AttrsOf(op).SAI_ROUTER_INTERFACE_ATTR_PORT_ID, 0, 5) = "vlan_"

\* C18: a create, update, remove, address add or address remove on a router
\* interface whose bound port object is a VLAN returns success, issues no
\* dataplane call and no OS command, and leaves the VRF map and the address
\* store as they were.
C18_VlanBoundIsSkipped ==
    [][IsVlanBound(lastOp') =>
          /\ lastOp'.status = "SAI_STATUS_SUCCESS"
          /\ lastOp'.calls = <<>>
          /\ vrf_objMap' = vrf_objMap
          /\ m_intf_prefix_map' = m_intf_prefix_map]_vars

C18_Witness ==
    /\ lastOp.op = "vpp_create_router_interface"
    /\ IsVlanBound(lastOp)
    /\ lastOp.attr_list.SAI_ROUTER_INTERFACE_ATTR_TYPE
          = "SAI_ROUTER_INTERFACE_TYPE_SUB_PORT"
    /\ lastOp.path = "vlan"
    /\ lastOp.status = "SAI_STATUS_SUCCESS"
    /\ vrf_objMap # EmptyMap

\* a create request lacks an attribute it requires: the type, the port id of
\* a port or sub-port interface, or the outer VLAN id of a sub-port whose
\* port object is a port
LacksRequiredAttr(attr_list) ==
    \/ "SAI_ROUTER_INTERFACE_ATTR_TYPE" \notin DOMAIN attr_list
    \/ /\ attr_list.SAI_ROUTER_INTERFACE_ATTR_TYPE \in
             {"SAI_ROUTER_INTERFACE_TYPE_PORT",
              "SAI_ROUTER_INTERFACE_TYPE_SUB_PORT"}
       /\ "SAI_ROUTER_INTERFACE_ATTR_PORT_ID" \notin DOMAIN attr_list
    \/ /\ attr_list.SAI_ROUTER_INTERFACE_ATTR_TYPE
             = "SAI_ROUTER_INTERFACE_TYPE_SUB_PORT"
       /\ "SAI_ROUTER_INTERFACE_ATTR_PORT_ID" \in DOMAIN attr_list
       /\ SubstrN(attr_list.SAI_ROUTER_INTERFACE_ATTR_PORT_ID, 0, 5) = "port_"
       /\ "SAI_ROUTER_INTERFACE_ATTR_OUTER_VLAN_ID" \notin DOMAIN attr_list

\* C19: a create whose request lacks a required attribute (type; port id for
\* a port or sub-port interface; outer VLAN id for a sub-port) returns
\* failure and issues no command.
C19_MissingAttributeFails ==
    (lastOp.op = "vpp_create_router_interface"
        /\ LacksRequiredAttr(lastOp.attr_list))
    => (lastOp.status = "SAI_STATUS_FAILURE" /\ lastOp.calls = <<>>)

(***************************************************************************)
(* Properties of the port and interface setters (SpecPort).                *)
(***************************************************************************)
Setters ==
    {"vpp_set_interface_state", "vpp_set_port_mtu", "vpp_set_interface_mtu"}

\* C21: while is_ip_nbr_active() is false, vpp_set_interface_state,
\* vpp_set_port_mtu and vpp_set_interface_mtu issue no dataplane call and
\* return success, for every object id, VLAN id and value.
C21_InactiveSettersAreNoOps ==
    (lastOp.op \in Setters /\ ~lastOp.nbrActive)
    => (lastOp.calls = <<>> /\ lastOp.status = "SAI_STATUS_SUCCESS")

C21_Witness ==
    /\ lastOp.op = "vpp_set_port_mtu"
    /\ ~lastOp.nbrActive
    /\ lastOp.object_id = "port_Ethernet0"
    /\ lastOp.calls = <<>>
    /\ lastOp.status = "SAI_STATUS_SUCCESS"

(***************************************************************************)
(* Properties of the Event Bridge (SpecEv, SpecEvFair, SpecEvSync).        *)
(***************************************************************************)
\* the port whose host interface has the dataplane name hwif_name
PortsOfHwif(hwif_name) ==
    {p \in DOMAIN TapNames : tap_to_hwif_name(TapNames[p]) = hwif_name}

\* the notifications due for a dequeued event
DueFor(e) ==
    IF e.type = "VPP_INTF_LINK_STATUS" /\ PortsOfHwif(e.hwif_name) # {}
    THEN << [port_id |-> CHOOSE p \in PortsOfHwif(e.hwif_name) : TRUE,
             state |-> IF e.link_up THEN "SAI_PORT_OPER_STATUS_UP"
                       ELSE "SAI_PORT_OPER_STATUS_DOWN",
             ev |-> e.id] >>
    ELSE <<>>

\* C22: the inner loop goes back to polling only on an empty queue; it
\* dequeues the oldest event; handling a dequeued link event of a mapped
\* interface appends exactly one notification for its port, up iff link_up,
\* and handling any other event appends none and goes on draining; nothing
\* else sends a notification.
C22_DrainAndNotifyInOrder ==
    [][/\ (evPc = "drain" /\ evPc' = "loop") => evQueue = <<>>
       /\ (evPc = "drain" /\ evPc' = "handle") =>
              (evp' = Head(evQueue) /\ evQueue' = Tail(evQueue))
       /\ (evPc = "handle" /\ evPc' # evPc) =>
              (evPc' = "drain" /\ notifications' = notifications \o DueFor(evp))
       /\ notifications' # notifications =>
              (evPc = "handle" /\ evPc' = "drain")
       /\ \A i, j \in DOMAIN notifications' :
              i < j => notifications'[i].ev < notifications'[j].ev]_vars

C22_Witness ==
    /\ evPosted = 2
    /\ evQueue = <<>>
    /\ evPc = "drain"
    /\ evp.id = 2
    /\ Len(notifications) = 1
    /\ notifications[1].ev = 2
    /\ notifications[1].state = "SAI_PORT_OPER_STATUS_DOWN"

\* C23: no step of the event thread (vppProcessEvents with
\* asyncIntfStateUpdate) changes the VRF map, the loopback instance map, the
\* destination-IP maps, the free set, the instance counter or the Prefix
\* State Store, wherever it falls between synchronous operations.
C23_BridgeLeavesMapsAlone ==
    [][(evPc # "unstarted" /\ evPc' # evPc) =>
          UNCHANGED <<vrf_objMap, lpbInstMap, lpbIpToIfMap, lpbIpToHostIfMap,
                      availableInstances, currentMaxInstance,
                      m_intf_prefix_map>>]_vars

C23_Witness ==
    /\ notifications # <<>>
    /\ evPc = "drain"
    /\ vrf_objMap # EmptyMap
    /\ lpbInstMap # EmptyMap
    /\ lpbIpToIfMap # EmptyMap
    /\ m_intf_prefix_map # EmptyMap
    /\ lastOp.op = "vpp_add_del_intf_ip_addr"

\* event i waits in the queue
Queued(i) == \E k \in DOMAIN evQueue : evQueue[k].id = i

\* event i waits in the queue and its hardware name maps to a port
QueuedForPort(i) ==
    \E k \in DOMAIN evQueue :
        evQueue[k].id = i /\ DueFor(evQueue[k]) # <<>>

\* event i has left the queue and the loop body has finished with it
Handled(i) ==
    /\ i <= evPosted
    /\ ~Queued(i)
    /\ ~(evPc = "handle" /\ evp.id = i)

Notified(i) == \E k \in DOMAIN notifications : notifications[k].ev = i

\* C29: with the event thread scheduled fairly and its run flag set for
\* ever, every event in the queue is eventually dequeued and handled, and
\* every queued link event of a mapped interface is eventually notified.
C29_EveryEventIsDelivered ==
    ([]m_run_vpp_events_thread) =>
        \A i \in 1..MaxEvents :
            /\ Queued(i) ~> Handled(i)
            /\ QueuedForPort(i) ~> Notified(i)

C29_Witness ==
    /\ m_run_vpp_events_thread
    /\ evPosted = 2
    /\ Handled(1) /\ ~Notified(1)
    /\ Handled(2) /\ Notified(2)

(***************************************************************************)
(* Further properties of the loopback coordinator (SpecLpb).               *)
(***************************************************************************)
\* d2 is recorded with the dataplane loopback name and the host name of d1
MatchesBothNames(d1, d2) ==
    /\ d1 \in DOMAIN lpbIpToIfMap /\ d2 \in DOMAIN lpbIpToIfMap
    /\ d1 \in DOMAIN lpbIpToHostIfMap /\ d2 \in DOMAIN lpbIpToHostIfMap
    /\ lpbIpToIfMap[d1] = lpbIpToIfMap[d2]
    /\ lpbIpToHostIfMap[d1] = lpbIpToHostIfMap[d2]

\* C24: removing destination d1 erases the lpbIpToIfMap or lpbIpToHostIfMap
\* entry of another destination d2 only if d2 has both the dataplane name and
\* the host name of d1; otherwise the entries of d2 stay as they were in
\* both maps.
C24_OnlyFullMatchesErased ==
    [][\A d1 \in DestIPs, d2 \in DestIPs :
        (d1 # d2 /\ IsLpbDelOf(d1) /\ ~MatchesBothNames(d1, d2))
        => /\ d2 \in DOMAIN lpbIpToIfMap =>
                (d2 \in DOMAIN lpbIpToIfMap'
                    /\ lpbIpToIfMap'[d2] = lpbIpToIfMap[d2])
           /\ d2 \in DOMAIN lpbIpToHostIfMap =>
                (d2 \in DOMAIN lpbIpToHostIfMap'
                    /\ lpbIpToHostIfMap'[d2] = lpbIpToHostIfMap[d2])]_vars

\* C30: two destinations recorded with the same dataplane loopback name in
\* lpbIpToIfMap are recorded with the same host interface name in
\* lpbIpToHostIfMap.
C30_SharedLoopbackHasOneHost ==
    \A d1 \in DOMAIN lpbIpToIfMap, d2 \in DOMAIN lpbIpToIfMap :
        ( /\ lpbIpToIfMap[d1] # ""
          /\ lpbIpToIfMap[d1] = lpbIpToIfMap[d2]
          /\ d1 \in DOMAIN lpbIpToHostIfMap
          /\ d2 \in DOMAIN lpbIpToHostIfMap )
        => lpbIpToHostIfMap[d1] = lpbIpToHostIfMap[d2]

\* the dataplane creation or the dataplane address add of a full creation
\* returned an error
FullCreationStepFailed(op) ==
    /\ op.op = "lpb_add"
    /\ op.path = "full"
    /\ \E i \in CallsOf(op.calls, "create_loopback_instance")
             \cup CallsOf(op.calls, "interface_ip_address_add_del") :
          op.calls[i].ret # 0

\* C28: when the dataplane loopback creation or the dataplane address add of
\* a full creation fails, the remaining steps still run in order, the call
\* returns success, the instance number stays allocated and the entries in
\* lpbInstMap, lpbIpToIfMap and lpbIpToHostIfMap are recorded.
C28_FullCreationFailuresOnlyLogged ==
    [][FullCreationStepFailed(lastOp') =>
          /\ lastOp'.status = "SAI_STATUS_SUCCESS"
          /\ [i \in 1..Len(lastOp'.calls) |-> lastOp'.calls[i].fn] =
                << "create_loopback_instance", "refresh_interfaces_list",
                   "interface_ip_address_add_del", "interface_set_state",
                   "configureLoopbackInterface", "configure_lcp_interface",
                   "configureLoopbackInterface" >>
          /\ lastOp'.calls[1].hw_ifname \in DOMAIN lpbInstMap'
          /\ lpbInstMap'[lastOp'.calls[1].hw_ifname] = lastOp'.calls[1].instance
          /\ lastOp'.calls[1].instance \notin availableInstances'
          /\ lastOp'.route.addr \in DOMAIN lpbIpToIfMap'
          /\ lpbIpToIfMap'[lastOp'.route.addr] = lastOp'.calls[1].hw_ifname
          /\ lastOp'.route.addr \in DOMAIN lpbIpToHostIfMap'
          /\ lpbIpToHostIfMap'[lastOp'.route.addr] = lastOp'.host]_vars

C28_Witness ==
    /\ FullCreationStepFailed(lastOp)
    /\ lastOp.calls[1].ret # 0
    /\ lastOp.calls[3].ret # 0
    /\ lastOp.calls[1].hw_ifname \in DOMAIN lpbInstMap
    /\ lastOp.route.addr \in DOMAIN lpbIpToIfMap

(***************************************************************************)
(* Further properties of the Prefix State Store (SpecAddr).                *)
(***************************************************************************)
\* the prefix text of a dataplane address call
CallPrefix(call) == call.prefix_addr \o "/" \o ToString(call.prefix_len)

\* the part of a composite record after the delimiter
AfterDelimiter(record) == Substr(record, StrFind(record, "@") + 1)

\* the part of a composite record before the delimiter
BeforeDelimiter(record) == SubstrN(record, 0, StrFind(record, "@"))

\* the step is an address remove that found a record and withdrew an address
IsWithdrawal ==
    /\ lastOp'.op \in AddrOps
    /\ ~lastOp'.is_add
    /\ lastOp'.key \in DOMAIN m_intf_prefix_map
    /\ lastOp'.path = "removed"

\* C25: an address remove issues one dataplane delete and no OS query; the
\* delete carries the prefix held by the store record of the key (for the
\* norif variant, on the dataplane interface of the recorded interface
\* name); when the call before was the add that wrote the record, it is the
\* prefix that add pushed.
C25_RemoveWithdrawsRecordedPrefix ==
    [][IsWithdrawal =>
          /\ Len(lastOp'.calls) = 1
          /\ lastOp'.calls[1].fn = "interface_ip_address_add_del"
          /\ ~lastOp'.calls[1].is_add
          /\ lastOp'.op = "vpp_add_del_intf_ip_addr" =>
                CallPrefix(lastOp'.calls[1]) = m_intf_prefix_map[lastOp'.key]
          /\ lastOp'.op = "vpp_add_del_intf_ip_addr_norif" =>
                /\ CallPrefix(lastOp'.calls[1]) =
                      AfterDelimiter(m_intf_prefix_map[lastOp'.key])
                /\ lastOp'.calls[1].hw_ifname =
                      "bobm" \o Substr(BeforeDelimiter(
                                  m_intf_prefix_map[lastOp'.key]), 8)
          /\ ( /\ lastOp.op = lastOp'.op
               /\ lastOp.is_add
               /\ lastOp.key = lastOp'.key
               /\ lastOp.path = "programmed" ) =>
                /\ CallPrefix(lastOp'.calls[1]) =
                      CallPrefix(lastOp.calls[Len(lastOp.calls)])
                /\ lastOp'.calls[1].hw_ifname =
                      lastOp.calls[Len(lastOp.calls)].hw_ifname]_vars

C25_Witness ==
    /\ lastOp.op = "vpp_add_del_intf_ip_addr_norif"
    /\ ~lastOp.is_add
    /\ lastOp.path = "removed"
    /\ lastOp.calls[1].hw_ifname = "bobm0.10"
    /\ CallPrefix(lastOp.calls[1]) = "10.0.0.2/24"
    /\ lastOp.ip_prefix.addr = "10.0.0.1"
    /\ m_intf_prefix_map = EmptyMap

(***************************************************************************)
(* Further properties of the router-interface state machine (SpecRif).     *)
(***************************************************************************)
\* the router interface is bound to a port that has a host interface and is
\* not a sub-port
IsPlainPortRif(rif_id) ==
    /\ HasAttr(rif_id, "SAI_ROUTER_INTERFACE_ATTR_TYPE")
    /\ HasAttr(rif_id, "SAI_ROUTER_INTERFACE_ATTR_PORT_ID")
    /\ RouterInterfaces[rif_id].SAI_ROUTER_INTERFACE_ATTR_TYPE
          # "SAI_ROUTER_INTERFACE_TYPE_SUB_PORT"
    /\ RouterInterfaces[rif_id].SAI_ROUTER_INTERFACE_ATTR_PORT_ID
          \in DOMAIN TapNames

DataplaneStepCalls(op) == SubSeq(op.calls, 1, Len(op.calls) - 1)

\* C27: with tap devices enabled createRouterif runs the create path iff
\* get() reports the object as not found and the update path otherwise; with
\* tap devices disabled it runs no dataplane step; in every case it then
\* calls create_internal and returns the status of create_internal, whatever
\* the dataplane step returned.
C27_DispatchAndStatus ==
    lastOp.op = "createRouterif" =>
        /\ m_useTapDevice =>
              /\ lastOp.getStatus = "SAI_STATUS_ITEM_NOT_FOUND"
                    <=> lastOp.step = "create"
              /\ lastOp.getStatus # "SAI_STATUS_ITEM_NOT_FOUND"
                    <=> lastOp.step = "update"
        /\ ~m_useTapDevice =>
              (lastOp.step = "none" /\ DataplaneStepCalls(lastOp) = <<>>)
        /\ lastOp.calls[Len(lastOp.calls)].fn = "create_internal"
        /\ CallsOf(lastOp.calls, "create_internal") = {Len(lastOp.calls)}
        /\ lastOp.status = lastOp.internalStatus

C27_Witness ==
    /\ lastOp.op = "createRouterif"
    /\ m_useTapDevice
    /\ lastOp.step = "create"
    /\ lastOp.inner = "SAI_STATUS_FAILURE"
    /\ lastOp.status = "SAI_STATUS_SUCCESS"
    /\ vrf_objMap # EmptyMap

(***************************************************************************)
(* Removal of a destination the coordinator holds no mapping for (SpecLpb).*)
(***************************************************************************)
\* destination d has no entry in lpbIpToIfMap and none in lpbIpToHostIfMap
HasNoMapping(d) ==
    d \notin DOMAIN lpbIpToIfMap /\ d \notin DOMAIN lpbIpToHostIfMap

\* C31: process_interface_loopback remove of a destination with no recorded
\* mapping leaves lpbInstMap, lpbIpToIfMap and lpbIpToHostIfMap (values and
\* key sets), the free set and the instance counter as they were and issues
\* no dataplane call.
C31_RemoveOfUnmappedIsNoOp ==
    [][\A d \in DestIPs :
        (HasNoMapping(d) /\ IsLpbDelOf(d))
        => /\ lpbInstMap' = lpbInstMap
           /\ lpbIpToIfMap' = lpbIpToIfMap
           /\ lpbIpToHostIfMap' = lpbIpToHostIfMap
           /\ availableInstances' = availableInstances
           /\ currentMaxInstance' = currentMaxInstance
           /\ lastOp'.calls = <<>>]_vars

(***************************************************************************)
(* Erasure of the store entry on an address remove (SpecAddr).             *)
(***************************************************************************)
\* the step is an address remove (either variant) that reached a device
IsAddrRemove ==
    lastOp'.op \in AddrOps /\ ~lastOp'.is_add /\ ReachedDevice(lastOp')

\* C32: an address remove for a key with a stored entry leaves the store
\* without that key and otherwise as it was, whether the dataplane delete
\* returned zero or non-zero; a remove of the same key that follows a remove
\* whose dataplane delete failed returns success, issues no dataplane delete
\* and leaves the store as it is.
C32_EntryErasedWhateverTheDelete ==
    /\ [][(IsAddrRemove /\ lastOp'.key \in DOMAIN m_intf_prefix_map)
           => /\ lastOp'.key \notin DOMAIN m_intf_prefix_map'
              /\ m_intf_prefix_map' = MapErase(m_intf_prefix_map, lastOp'.key)]_vars
    /\ [][( /\ lastOp.op \in AddrOps /\ ~lastOp.is_add
            /\ lastOp.path = "removed"
            /\ lastOp.status = "SAI_STATUS_FAILURE"
            /\ IsAddrRemove
            /\ lastOp'.op = lastOp.op
            /\ lastOp'.key = lastOp.key )
           => /\ lastOp'.status = "SAI_STATUS_SUCCESS"
              /\ DataplaneAddrCalls(lastOp'.calls, FALSE) = {}
              /\ m_intf_prefix_map' = m_intf_prefix_map]_vars

\* a router-interface remove has had its dataplane delete refused and the
\* store no longer holds its key
C32_Witness ==
    /\ lastOp.op = "vpp_add_del_intf_ip_addr"
    /\ ~lastOp.is_add
    /\ lastOp.path = "removed"
    /\ lastOp.status = "SAI_STATUS_FAILURE"
    /\ \E i \in DataplaneAddrCalls(lastOp.calls, FALSE) : lastOp.calls[i].ret # 0
    /\ lastOp.key \notin DOMAIN m_intf_prefix_map

(***************************************************************************)
(* VRF binding of a created router interface (SpecRif).                    *)
(***************************************************************************)
\* the virtual-router object id vpp_create_router_interface works with
VrfObjOf(attr_list) ==
    IF Passed(attr_list, "SAI_ROUTER_INTERFACE_ATTR_VIRTUAL_ROUTER_ID")
    THEN attr_list.SAI_ROUTER_INTERFACE_ATTR_VIRTUAL_ROUTER_ID
    ELSE 0

\* C33: when vpp_create_router_interface has bound the interface to a
\* non-zero VRF id n with set_interface_vrf, the VRF map holds a descriptor
\* for the interface's virtual-router object id and its numeric id is n.
C33_BoundVrfIsRegistered ==
    lastOp.op = "vpp_create_router_interface" =>
        \A i \in CallsOf(lastOp.calls, "set_interface_vrf") :
            lastOp.calls[i].vrf_id # 0 =>
                /\ VrfObjOf(lastOp.attr_list) \in DOMAIN vrf_objMap
                /\ vrf_objMap[VrfObjOf(lastOp.attr_list)].m_vrf_id
                        = lastOp.calls[i].vrf_id

\* the step is a vpp_create_router_interface whose vpp_get_vrf_id failed
IsCreateWithFailedVrfQuery ==
    /\ lastOp'.op = "vpp_create_router_interface"
    /\ \E i \in CallsOf(lastOp'.calls, "vpp_get_vrf_id") :
            lastOp'.calls[i].ret # 0

\* C34: when vpp_get_vrf_id fails during vpp_create_router_interface, no
\* dataplane VRF table is created, no descriptor is registered in the VRF
\* map, no flow hash is programmed and the interface is bound to no VRF.
C34_FailedVrfQueryTouchesNothing ==
    [][IsCreateWithFailedVrfQuery
        => /\ CallsOf(lastOp'.calls, "ip_vrf_add") = {}
           /\ vrf_objMap' = vrf_objMap
           /\ CallsOf(lastOp'.calls, "vpp_ip_flow_hash_set") = {}
           /\ CallsOf(lastOp'.calls, "set_interface_vrf") = {}]_vars

====
